---- MODULE Spec2Model ----
(***************************************************************************)
(* Verification model of the Levy-analyzer backend (backend/server.js):    *)
(* the SEC rate limiter, the quote/news caches and their route handlers,   *)
(* the filing selection of fetchSecFilings and retryWithBackoff.           *)
(*                                                                         *)
(* Each subsystem has its own specification (SpecSec, SpecCache,           *)
(* SpecFilings, SpecRetry); the variables of the other subsystems are      *)
(* parked in their idle state and left unchanged.                          *)
(***************************************************************************)
EXTENDS Integers, Sequences, FiniteSets, TLC

(***************************************************************************)
(* Generic helpers                                                         *)
(***************************************************************************)
Min(a, b) == IF a <= b THEN a ELSE b

RECURSIVE Pow2(_)
Pow2(n) == IF n <= 0 THEN 1 ELSE 2 * Pow2(n - 1)

\* Math.ceil(a / b) for a >= 0, b > 0
CeilDiv(a, b) == (a + b - 1) \div b

(***************************************************************************)
(* SEC rate limiter: state                                                 *)
(***************************************************************************)
VARIABLES
    secNow,          \* Date.now() as seen by the SEC code, in ticks of SecTickMs
    secRateLimiter,  \* the secRateLimiter object
    secCall,         \* per caller: where its makeSecRequest invocation stands
    secIssued        \* history: the axios calls issued to the SEC, in order

secVars == <<secNow, secRateLimiter, secCall, secIssued>>

(***************************************************************************)
(* Quote and news caches and their route handlers: state                   *)
(***************************************************************************)
VARIABLES
    stockCache,  \* cache.stockData: upper-cased ticker -> {data, timestamp}
    newsCache,   \* newsCache: "news_" + ticker -> {timestamp, data}
    stockReq,    \* per request: where its GET /api/stock/:ticker handler stands
    newsReq,     \* per request: where its GET /api/stock/:ticker/news handler stands
    puts         \* history: per namespace and key, the last store and its age

cacheVars == <<stockCache, newsCache, stockReq, newsReq, puts>>

(***************************************************************************)
(* Filing selection of fetchSecFilings: state                              *)
(***************************************************************************)
VARIABLES
    recentFilings,   \* response.data.filings.recent, one record per index i
    filingsPc,       \* "fetched" before the selection, then "returned" or "thrown"
    limitedFilings   \* the list fetchSecFilings returns

filingVars == <<recentFilings, filingsPc, limitedFilings>>

(***************************************************************************)
(* retryWithBackoff: state                                                 *)
(***************************************************************************)
VARIABLES
    retry,      \* the invocation of retryWithBackoff: its arguments and locals
    retryLog    \* history: invocations of the operation, its failures, the delays

retryVars == <<retry, retryLog>>

(***************************************************************************)
(* fetchFilingContent: state                                               *)
(***************************************************************************)
VARIABLES
    filingDoc   \* the invocation of fetchFilingContent: response.data and the result

extractVars == <<filingDoc>>

(***************************************************************************)
(* POST /api/translate: state                                              *)
(***************************************************************************)
VARIABLES
    translateReq   \* per request: where its POST /api/translate handler stands

translateVars == <<translateReq>>

(***************************************************************************)
(* POST /api/analyze/sec: state                                            *)
(***************************************************************************)
VARIABLES
    analyzeReq   \* per caller: where its POST /api/analyze/sec handler stands

analyzeVars == <<analyzeReq>>

(***************************************************************************)
(* usePortfolio (the watchlist hook): state                                *)
(***************************************************************************)
VARIABLES
    mounted,    \* the component that uses the hook is mounted
    stocks,     \* the state stocks, as of the last render
    queue,      \* the updates passed to setStocks since the last render
    storage,    \* localStorage, the item 'portfolio'
    interval,   \* the interval of the auto-update effect and the stocks its callback sees
    adds,       \* per call of addStock: where it stands
    refresh     \* the call of updateStockData: where it stands

portfolioVars == <<mounted, stocks, queue, storage, interval, adds, refresh>>

(***************************************************************************)
(* chunkText: state                                                        *)
(***************************************************************************)
VARIABLES
    chunkInput,  \* the argument filings
    chunkPc,     \* "idle", "called" or "returned"
    chunks       \* the groups returned

chunkVars == <<chunkInput, chunkPc, chunks>>

vars == <<secVars, cacheVars, filingVars, retryVars, extractVars, translateVars, analyzeVars, portfolioVars, chunkVars>>

\* the variables each subsystem leaves alone
notSecVars == <<cacheVars, filingVars, retryVars, extractVars, translateVars, analyzeVars, portfolioVars, chunkVars>>
notCacheVars == <<secVars, filingVars, retryVars, extractVars, translateVars, analyzeVars, portfolioVars, chunkVars>>
notFilingVars == <<secVars, cacheVars, retryVars, extractVars, translateVars, analyzeVars, portfolioVars, chunkVars>>
notRetryVars == <<secVars, cacheVars, filingVars, extractVars, translateVars, analyzeVars, portfolioVars, chunkVars>>
notExtractVars == <<secVars, cacheVars, filingVars, retryVars, translateVars, analyzeVars, portfolioVars, chunkVars>>
notTranslateVars == <<secVars, cacheVars, filingVars, retryVars, extractVars, analyzeVars, portfolioVars, chunkVars>>
notAnalyzeVars == <<secVars, cacheVars, filingVars, retryVars, extractVars, translateVars, portfolioVars, chunkVars>>
notAnalyzeSecVars == <<cacheVars, filingVars, retryVars, extractVars, translateVars, portfolioVars, chunkVars>>
notPortfolioVars == <<secVars, cacheVars, filingVars, retryVars, extractVars, translateVars, analyzeVars, chunkVars>>
notChunkVars == <<secVars, cacheVars, filingVars, retryVars, extractVars, translateVars, analyzeVars, portfolioVars>>

\* bounds of the SEC model
NumSecCallers  == 2
MaxSecRequests == 3
MaxSecTime     == 7

\* granularity of the SEC clock: one tick is 5 s
SecTickMs == 5 * 1000

SecCallers == 1..NumSecCallers

\* secRateLimiter.requestsPerSecond = 0.1, written as its inverse
\* (seconds per request) to stay within the integers
SecondsPerRequest == 10

\* const minDelay = 1000 / secRateLimiter.requestsPerSecond   (in ticks)
MinDelay == (1000 * SecondsPerRequest) \div SecTickMs

\* the block time without the cap of 24 h (in ms)
BlockTimeMsUncapped(n) == Pow2(n) * 10 * 60 * 1000

\* Math.min(Math.pow(2, n) * 10 * 60 * 1000, 24 * 60 * 60 * 1000)   (in ms)
BlockTimeMs(n) == Min(Pow2(n) * 10 * 60 * 1000, 24 * 60 * 60 * 1000)

\* the same in ticks, rounded up
BlockTime(n) == CeilDiv(BlockTimeMs(n), SecTickMs)

\* HTTP statuses the SEC may answer; NoResponse stands for a network
\* failure or a timeout (axios rejects with an error without .response)
NoResponse   == 0
SecStatuses  == {200, 404, 429, 503}
SecOutcomes  == SecStatuses \cup {NoResponse}

\* validateStatus: status < 500
ValidateStatus(status) == status < 500

\* an Error object: its message and error.response?.status (NoResponse
\* when the error has no response attached)
Err(msg, rs) == [message |-> msg, responseStatus |-> rs]

NoErr == Err("", NoResponse)

IdleCall == [pc |-> "idle", wakeAt |-> 0, status |-> NoResponse,
             outcome |-> "none", error |-> NoErr, waitSecs |-> 0]

SecInit ==
    /\ secNow = MinDelay
    /\ secRateLimiter = [lastRequestTime |-> 0, isBlocked |-> FALSE,
                         blockUntil |-> 0, consecutiveErrors |-> 0]
    /\ secCall = [c \in SecCallers |-> IdleCall]
    /\ secIssued = <<>>

SecIdle == SecInit

(***************************************************************************)
(* checkSecRateLimit, up to its await                                      *)
(***************************************************************************)
\* a limiter that never refuses a call
BlockedNever(lim, t) == FALSE

\* the limiter is blocked at time t
Blocked(lim, t) == lim.isBlocked /\ t < lim.blockUntil

\* the block check without the reset
AfterBlockCheckKeep(lim, t) == lim

\* the block check that unblocks and keeps the count of errors
AfterBlockCheckKeepErrors(lim, t) ==
    IF lim.isBlocked /\ ~(t < lim.blockUntil)
    THEN [lim EXCEPT !.isBlocked = FALSE]
    ELSE lim

\* lines 79-87: the limiter after the block check (unblocked when the
\* block period ended)
AfterBlockCheck(lim, t) ==
    IF lim.isBlocked /\ ~(t < lim.blockUntil)
    THEN [lim EXCEPT !.isBlocked = FALSE, !.consecutiveErrors = 0]
    ELSE lim

\* Math.ceil((blockUntil - now) / 1000), in seconds
BlockedWaitSecs(lim, t) == CeilDiv((lim.blockUntil - t) * SecTickMs, 1000)

\* the axios call is issued: recorded with the limiter's state at that time
Issue(c, lim) ==
    secIssued' = Append(secIssued,
        [caller |-> c, time |-> secNow, blocked |-> Blocked(lim, secNow)])

\* makeSecRequest is called: checkSecRateLimit runs to its throw, to its
\* await wait(waitTime), or to its end (and then axios is called); no call
\* is made once maxRequests requests were issued
SecStartUpTo(c, maxRequests) ==
    /\ secCall[c].pc = "idle"
    /\ Len(secIssued) < maxRequests
    /\ LET now == secNow
           lim == secRateLimiter
       IN IF Blocked(lim, now)
          THEN /\ secCall' = [secCall EXCEPT ![c] =
                      [IdleCall EXCEPT !.pc = "done", !.outcome = "blocked",
                          !.error = Err("SEC API is blocked", NoResponse),
                          !.waitSecs = BlockedWaitSecs(lim, now)]]
               /\ UNCHANGED <<secRateLimiter, secIssued>>
          ELSE LET lim2 == AfterBlockCheck(lim, now)
                   timeSinceLastRequest == now - lim2.lastRequestTime
               IN IF timeSinceLastRequest < MinDelay
                  THEN /\ secRateLimiter' = lim2
                       /\ secCall' = [secCall EXCEPT ![c] =
                              [IdleCall EXCEPT !.pc = "waiting",
                                  !.wakeAt = now + (MinDelay - timeSinceLastRequest)]]
                       /\ UNCHANGED secIssued
                  ELSE /\ secRateLimiter' = [lim2 EXCEPT !.lastRequestTime = secNow]
                       /\ secCall' = [secCall EXCEPT ![c] =
                              [IdleCall EXCEPT !.pc = "request"]]
                       /\ Issue(c, lim2)
    /\ UNCHANGED <<secNow, notSecVars>>

\* the timer fires and the time of the request is not recorded
SecWakeKeep(c) ==
    /\ secCall[c].pc = "waiting"
    /\ secNow >= secCall[c].wakeAt
    /\ secCall' = [secCall EXCEPT ![c].pc = "request"]
    /\ Issue(c, secRateLimiter)
    /\ UNCHANGED <<secNow, secRateLimiter, notSecVars>>

SecStart(c) == SecStartUpTo(c, MaxSecRequests)

\* the timer of wait(waitTime) fires: line 99, then the axios call
SecWake(c) ==
    /\ secCall[c].pc = "waiting"
    /\ secNow >= secCall[c].wakeAt
    /\ secRateLimiter' = [secRateLimiter EXCEPT !.lastRequestTime = secNow]
    /\ secCall' = [secCall EXCEPT ![c].pc = "request"]
    /\ Issue(c, secRateLimiter)
    /\ UNCHANGED <<secNow, notSecVars>>

(***************************************************************************)
(* handleSecRateLimit and the rest of makeSecRequest                       *)
(***************************************************************************)
\* handleSecRateLimit(error): the limiter it leaves and the error it throws
HandleSecRateLimit(lim, error, t) ==
    IF error.responseStatus = 429
    THEN LET n == lim.consecutiveErrors + 1
         IN [limiter |-> [lim EXCEPT !.consecutiveErrors = n,
                                     !.isBlocked = TRUE,
                                     !.blockUntil = t + BlockTime(n)],
             error |-> Err("SEC rate limit exceeded", NoResponse)]
    ELSE [limiter |-> lim, error |-> error]

\* axios settles the request: resolved with the response when there is one
\* and validateStatus accepts it, rejected otherwise
AxiosResolves(status) == status # NoResponse /\ ValidateStatus(status)

AxiosError(status) ==
    IF status = NoResponse THEN Err("Network Error", NoResponse)
    ELSE Err("Request failed with status code", status)

\* the error thrown inside the try block of makeSecRequest (lines 120-143),
\* NoErr when the block returns the response
TryBlockError(status) ==
    IF ~AxiosResolves(status) THEN AxiosError(status)
    ELSE IF status = 404 THEN Err("Resource not found", NoResponse)
    ELSE IF status # 200 THEN Err("SEC request failed with status", NoResponse)
    ELSE NoErr

\* the SEC answers (or the network fails): lines 133-150
SecRespond(c, status) ==
    /\ secCall[c].pc = "request"
    /\ LET thrown == TryBlockError(status)
       IN IF thrown = NoErr
          THEN /\ secRateLimiter' = [secRateLimiter EXCEPT !.consecutiveErrors = 0]
               /\ secCall' = [secCall EXCEPT ![c].pc = "done",
                                  ![c].status = status, ![c].outcome = "ok"]
          ELSE LET h == IF thrown.responseStatus = 429
                        THEN HandleSecRateLimit(secRateLimiter, thrown, secNow)
                        ELSE [limiter |-> secRateLimiter, error |-> thrown]
               IN /\ secRateLimiter' = h.limiter
                  /\ secCall' = [secCall EXCEPT ![c].pc = "done",
                                     ![c].status = status,
                                     ![c].outcome = "error",
                                     ![c].error = h.error]
    /\ UNCHANGED <<secNow, secIssued, notSecVars>>

\* the caller's request is over; the caller may issue another one
SecFinish(c) ==
    /\ secCall[c].pc = "done"
    /\ secCall' = [secCall EXCEPT ![c] = IdleCall]
    /\ UNCHANGED <<secNow, secRateLimiter, secIssued, notSecVars>>

\* time passes, up to maxTime
SecTickUpTo(maxTime) ==
    /\ secNow < maxTime
    /\ secNow' = secNow + 1
    /\ UNCHANGED <<secRateLimiter, secCall, secIssued, notSecVars>>

SecTick == SecTickUpTo(MaxSecTime)

SecNext ==
    \/ \E c \in SecCallers : SecStart(c)
    \/ \E c \in SecCallers : SecWake(c)
    \/ \E c \in SecCallers, s \in SecOutcomes : SecRespond(c, s)
    \/ \E c \in SecCallers : SecFinish(c)
    \/ SecTick

(***************************************************************************)
(* Claims about the SEC rate limiter                                       *)
(***************************************************************************)
\* the step in which caller c receives the HTTP status s
SecAnswered(c, s) ==
    /\ secCall[c].pc = "request"
    /\ secCall'[c].pc = "done"
    /\ secCall'[c].status = s

\* C1: when the SEC answers 429 to the call made by makeSecRequest, the
\* failure is reported to the limiter: consecutiveErrors is incremented,
\* isBlocked becomes true and blockUntil = now + min(2^consecutiveErrors *
\* 10 min, 24 h), so that the next checkSecRateLimit fails fast.
C1_RateLimitReported ==
    [][\A c \in SecCallers :
          SecAnswered(c, 429) =>
              /\ secRateLimiter'.consecutiveErrors =
                     secRateLimiter.consecutiveErrors + 1
              /\ secRateLimiter'.isBlocked
              /\ secRateLimiter'.blockUntil =
                     secNow + BlockTime(secRateLimiter'.consecutiveErrors)]_vars

\* C2: for every interleaving of concurrent makeSecRequest calls, any two
\* SEC network requests are issued at least minDelay apart.
C2_MinInterval ==
    \A i, j \in 1..Len(secIssued) :
        i < j => secIssued[j].time - secIssued[i].time >= MinDelay

\* The limiter is never put into the blocked state: the only assignment of
\* isBlocked = true is in handleSecRateLimit, which makeSecRequest calls
\* only for an error whose response status is 429, and validateStatus
\* makes axios resolve (not reject) every status below 500.
SecNeverBlocked ==
    /\ ~secRateLimiter.isBlocked
    /\ secRateLimiter.consecutiveErrors = 0


(***************************************************************************)
(* Quote and news caches: constants and values                             *)
(*                                                                         *)
(* The handlers use an entry's timestamp only in Date.now() - timestamp,   *)
(* so an entry carries that difference, its age, in ticks of CacheTickMs:  *)
(* 0 when stored, one more with each tick.  Ages at or above the           *)
(* namespace's duration are not told apart (the comparison with the        *)
(* duration gives the same result for all of them).                        *)
(***************************************************************************)
\* granularity of the handlers' clock: one tick is 10 s
CacheTickMs == 10 * 1000

\* the request slots of the quote handler
StockReqs == {1, 2}

\* CACHE_DURATIONS.STOCK = 30 * 1000 and CACHE_DURATIONS.NEWS = 5 * 60 * 1000
\* (in ticks)
CACHE_DURATIONS_STOCK == (30 * 1000) \div CacheTickMs
CACHE_DURATIONS_NEWS  == (5 * 60 * 1000) \div CacheTickMs

\* the :ticker path parameters the requests carry
ReqTickers == {"msft", "MSFT"}

\* req.params.ticker.toUpperCase()
ToUpperCase(t) == IF t = "msft" THEN "MSFT" ELSE t

StockKeys == {ToUpperCase(t) : t \in ReqTickers}

\* const cacheKey = `news_${ticker}`
NewsCacheKey(t) == <<"news_", t>>

NewsKeys == {NewsCacheKey(t) : t \in ReqTickers}

\* const exchanges = ['', '.NE', ':NYSE', ':NASDAQ']
exchanges == <<"", ".NE", ":NYSE", ":NASDAQ">>

\* meta.regularMarketPrice as the chart endpoint may return it; NoPrice
\* stands for a chart result without a price (undefined)
NoPrice == 0
Prices  == {1, 2}

\* message of the errors axios throws
AxiosMessages == {"timeout of 8000ms exceeded"}

\* message of the TypeError of price.toFixed(2) when the price is undefined
ToFixedMessage == "Cannot read properties of undefined (reading 'toFixed')"

\* lastError = null
NoMessage == ""

\* outcomes of the chart call: it throws, the response has no
\* chart.result[0], or it has one with the given price
ChartOutcomes ==
    {[kind |-> "throw", message |-> m, price |-> NoPrice] : m \in AxiosMessages}
    \cup {[kind |-> "nodata", message |-> NoMessage, price |-> NoPrice]}
    \cup {[kind |-> "data", message |-> NoMessage, price |-> p] :
              p \in Prices \cup {NoPrice}}

\* outcomes of the details call: it throws, the response has no
\* quoteResponse.result[0], or it has one
DetailsOutcomes ==
    {[kind |-> "throw", message |-> m] : m \in AxiosMessages}
    \cup {[kind |-> "nodata", message |-> NoMessage],
          [kind |-> "data", message |-> NoMessage]}

\* a cache entry; absent keys of the Map hold NoEntry
NoData  == [kind |-> "none"]
NoEntry == [present |-> FALSE, data |-> NoData, age |-> 0]

\* a store that is lost
EntryDropped(data) == NoEntry

\* cache.set(key, {data, timestamp: Date.now()})
Entry(data) == [present |-> TRUE, data |-> data, age |-> 0]

\* the comparison with <= in place of <
CacheHitInclusive(cached, duration) == cached.present /\ cached.age <= duration

\* cached && Date.now() - cached.timestamp < duration
CacheHit(cached, duration) == cached.present /\ cached.age < duration

\* an ageing that evicts the entry once the duration has passed
OlderEvicting(entry, duration) ==
    IF ~entry.present \/ entry.age + 1 >= duration
    THEN NoEntry
    ELSE [entry EXCEPT !.age = entry.age + 1]

\* Date.now() advances by one tick, seen from an entry
Older(entry, duration) ==
    IF entry.present /\ entry.age < duration
    THEN [entry EXCEPT !.age = entry.age + 1]
    ELSE entry

\* the stockData object (the fields that depend on the request and on the
\* source's answers)
StockData(ticker, price) ==
    [kind |-> "quote", ticker |-> ticker, name |-> ticker, price |-> price]

\* the body of the 404 answer
ErrorBody(errorMessage, ticker) ==
    [kind |-> "error", error |-> errorMessage, ticker |-> ticker]

\* error.message.includes('Stock not found'), over the messages above
IncludesStockNotFound(message) == message = "Stock not found"

\* lines 547-549
ErrorMessage(message, reqTicker) ==
    IF IncludesStockNotFound(message)
    THEN <<"Stock ", reqTicker, " not found">>
    ELSE <<"Failed to fetch stock data: ", message>>

\* the thrown error without the message of lastError
ThrownMessageGeneric(lastError) == "Stock not found"

\* lastError?.message || 'Stock not found'
ThrownMessage(lastError) ==
    IF lastError = NoMessage THEN "Stock not found" ELSE lastError

\* an HTTP response as the client sees it; sent = FALSE while none was sent
NoResp == [sent |-> FALSE, status |-> 0, body |-> NoData]
Resp(status, body) == [sent |-> TRUE, status |-> status, body |-> body]

\* history kept with a request at its arrival: whether the last store
\* under its key was younger than the duration, and the data stored then
\* (saw); the requests for the same ticker that had arrived less than the
\* quote duration before and were still awaiting a call (overlapped); and
\* with a quote request the message of the last error thrown inside its
\* exchange loop (lastThrown)
NotSeen == [fresh |-> FALSE, data |-> NoData]

Seen(put, duration) ==
    IF put.present /\ put.age < duration
    THEN [fresh |-> TRUE, data |-> put.data]
    ELSE NotSeen

IdleStockReq ==
    [pc |-> "idle", reqTicker |-> "", ticker |-> "", i |-> 0, price |-> NoPrice,
     lastError |-> NoMessage, attempts |-> <<>>, stored |-> FALSE,
     waited |-> 0, saw |-> NotSeen, overlapped |-> {}, lastThrown |-> NoMessage,
     resp |-> NoResp]

IdleNewsReq ==
    [pc |-> "idle", ticker |-> "", searched |-> FALSE, outcome |-> "none",
     saw |-> NotSeen, resp |-> NoResp]

\* the request slot of the news handler, and the ticker its requests carry
NewsReqs == {1}
NewsTickers == {"MSFT"}

CacheInit ==
    /\ stockCache = [k \in StockKeys |-> NoEntry]
    /\ newsCache = [k \in NewsKeys |-> NoEntry]
    /\ stockReq = [r \in StockReqs |-> IdleStockReq]
    /\ newsReq = [n \in NewsReqs |-> IdleNewsReq]
    /\ puts = [stock |-> [k \in StockKeys |-> NoEntry],
               news |-> [k \in NewsKeys |-> NoEntry]]

CacheIdle == CacheInit

(***************************************************************************)
(* GET /api/stock/:ticker                                                  *)
(***************************************************************************)
InFlight(q) == q.pc \in {"chart", "details"}

\* history: the ticks a request has been in flight, up to the quote duration
Waiting(q) ==
    IF InFlight(q) /\ q.waited < CACHE_DURATIONS_STOCK
    THEN [q EXCEPT !.waited = q.waited + 1]
    ELSE q

\* the request arrives: cache check (lines 468-474), otherwise the chart
\* call of the first exchange is issued
StockStart(r, t) ==
    /\ stockReq[r].pc = "idle"
    /\ LET ticker == ToUpperCase(t)
           cached == stockCache[ticker]
           started == [IdleStockReq EXCEPT !.reqTicker = t, !.ticker = ticker,
                          !.saw = Seen(puts.stock[ticker], CACHE_DURATIONS_STOCK),
                          !.overlapped = {q \in StockReqs :
                              /\ InFlight(stockReq[q])
                              /\ stockReq[q].ticker = ticker
                              /\ stockReq[q].waited < CACHE_DURATIONS_STOCK}]
       IN IF CacheHit(cached, CACHE_DURATIONS_STOCK)
          THEN stockReq' = [stockReq EXCEPT ![r] =
                   [started EXCEPT !.pc = "done", !.resp = Resp(200, cached.data)]]
          ELSE stockReq' = [stockReq EXCEPT ![r] =
                   [started EXCEPT !.pc = "chart", !.i = 1, !.attempts = <<1>>]]
    /\ UNCHANGED <<stockCache, newsCache, newsReq, puts, notCacheVars>>

\* a loop that tries the same exchange again before moving on
NextExchangeRetry(q, lastError) ==
    IF q.i < Len(exchanges)
    THEN [q EXCEPT !.pc = "chart", !.i = q.i + 1, !.price = NoPrice,
                   !.lastError = lastError,
                   !.attempts = q.attempts \o <<q.i, q.i + 1>>]
    ELSE [q EXCEPT !.pc = "done", !.price = NoPrice, !.lastError = lastError,
                   !.waited = 0,
                   !.resp = Resp(404,
                       ErrorBody(ErrorMessage(ThrownMessage(lastError), q.reqTicker),
                                 ToUpperCase(q.reqTicker)))]

\* the for loop moves to the next exchange and issues its chart call, or,
\* past the last one, the handler throws and answers 404 (lines 534-553)
NextExchange(q, lastError) ==
    IF q.i < Len(exchanges)
    THEN [q EXCEPT !.pc = "chart", !.i = q.i + 1, !.price = NoPrice,
                   !.lastError = lastError,
                   !.attempts = Append(q.attempts, q.i + 1)]
    ELSE [q EXCEPT !.pc = "done", !.price = NoPrice, !.lastError = lastError,
                   !.waited = 0,
                   !.resp = Resp(404,
                       ErrorBody(ErrorMessage(ThrownMessage(lastError), q.reqTicker),
                                 ToUpperCase(q.reqTicker)))]

\* the chart call of the current exchange returns or throws (lines 486-503)
StockChart(r, o) ==
    /\ stockReq[r].pc = "chart"
    /\ LET q == stockReq[r]
       IN stockReq' = [stockReq EXCEPT ![r] =
              CASE o.kind = "throw"  ->
                       [NextExchange(q, o.message) EXCEPT !.lastThrown = o.message]
                [] o.kind = "nodata" -> NextExchange(q, q.lastError)
                [] OTHER -> [q EXCEPT !.pc = "details", !.price = o.price]]
    /\ UNCHANGED <<stockCache, newsCache, newsReq, puts, notCacheVars>>

\* the details call of the current exchange returns or throws
\* (lines 504-544)
StockDetails(r, o) ==
    /\ stockReq[r].pc = "details"
    /\ LET q == stockReq[r]
       IN CASE o.kind = "throw" ->
                 /\ stockReq' = [stockReq EXCEPT ![r] =
                        [NextExchange(q, o.message) EXCEPT !.lastThrown = o.message]]
                 /\ UNCHANGED <<stockCache, puts>>
            [] o.kind = "nodata" ->
                 /\ stockReq' = [stockReq EXCEPT ![r] = NextExchange(q, q.lastError)]
                 /\ UNCHANGED <<stockCache, puts>>
            [] o.kind = "data" /\ q.price = NoPrice ->
                 /\ stockReq' = [stockReq EXCEPT ![r] =
                        [NextExchange(q, ToFixedMessage) EXCEPT
                             !.lastThrown = ToFixedMessage]]
                 /\ UNCHANGED <<stockCache, puts>>
            [] OTHER ->
                 LET stockData == StockData(q.ticker, q.price)
                 IN /\ stockCache' = [stockCache EXCEPT ![q.ticker] = Entry(stockData)]
                    /\ puts' = [puts EXCEPT !.stock[q.ticker] =
                                  [present |-> TRUE, data |-> stockData, age |-> 0]]
                    /\ stockReq' = [stockReq EXCEPT ![r] =
                           [q EXCEPT !.pc = "done", !.stored = TRUE, !.waited = 0,
                                     !.resp = Resp(200, stockData)]]
    /\ UNCHANGED <<newsCache, newsReq, notCacheVars>>

\* the handler has returned; the next request may arrive
StockFinish(r) ==
    /\ stockReq[r].pc = "done"
    /\ stockReq' = [stockReq EXCEPT ![r] = IdleStockReq]
    /\ UNCHANGED <<stockCache, newsCache, newsReq, puts, notCacheVars>>

(***************************************************************************)
(* GET /api/stock/:ticker/news                                             *)
(***************************************************************************)
\* what the news search may return: it throws, it has no news, or it has
\* the given list (each item reduced to its publisher)
NewsLists == {<<"Reuters", "Bloomberg">>}

NewsOutcomes ==
    {[kind |-> "throw", news |-> <<>>], [kind |-> "data", news |-> <<>>]}
    \cup {[kind |-> "data", news |-> l] : l \in NewsLists}

\* response.data.news.map(item => ({..., source: item.publisher, ...}))
NewsBody(ticker, news) ==
    [kind |-> "news", ticker |-> ticker,
     items |-> [k \in 1..Len(news) |-> [source |-> news[k]]]]

\* defaultNews
DefaultNews(ticker) == NewsBody(ticker, <<"Market Data">>)

\* what happens to a handler whose promise rejects: Express 4 drops the
\* rejection (no response is ever sent), Express 5 hands it to the default
\* error handler, which answers 500
RejectedResps == {NoResp, Resp(500, [kind |-> "errorpage"])}

\* the request arrives: cache check (lines 574-581), otherwise the news
\* search is issued
NewsStart(n, t) ==
    /\ newsReq[n].pc = "idle"
    /\ LET key == NewsCacheKey(t)
           cached == newsCache[key]
           started == [IdleNewsReq EXCEPT !.ticker = t,
                          !.saw = Seen(puts.news[key], CACHE_DURATIONS_NEWS)]
       IN IF CacheHit(cached, CACHE_DURATIONS_NEWS)
          THEN newsReq' = [newsReq EXCEPT ![n] =
                   [started EXCEPT !.pc = "done", !.resp = Resp(200, cached.data)]]
          ELSE newsReq' = [newsReq EXCEPT ![n] =
                   [started EXCEPT !.pc = "search", !.searched = TRUE]]
    /\ UNCHANGED <<stockCache, newsCache, stockReq, puts, notCacheVars>>

\* the news search returns or throws (lines 589-632).  In the catch block
\* `ticker` is not in scope (it is a const of the try block), so evaluating
\* the argument of res.status(500).json(...) throws a ReferenceError after
\* the status was set and before anything is sent.
NewsRespond(n, o, rejected) ==
    /\ newsReq[n].pc = "search"
    /\ LET q == newsReq[n]
           key == NewsCacheKey(q.ticker)
       IN IF o.kind = "throw"
          THEN /\ newsReq' = [newsReq EXCEPT ![n] =
                      [q EXCEPT !.pc = "rejected", !.outcome = "throw",
                                !.resp = rejected]]
               /\ UNCHANGED <<newsCache, puts>>
          ELSE LET body == IF Len(o.news) > 0 THEN NewsBody(q.ticker, o.news)
                           ELSE DefaultNews(q.ticker)
               IN /\ newsCache' = [newsCache EXCEPT ![key] = Entry(body)]
                  /\ puts' = [puts EXCEPT !.news[key] =
                                [present |-> TRUE, data |-> body, age |-> 0]]
                  /\ newsReq' = [newsReq EXCEPT ![n] =
                         [q EXCEPT !.pc = "done", !.outcome = "data",
                                   !.resp = Resp(200, body)]]
    /\ UNCHANGED <<stockCache, stockReq, notCacheVars>>

\* the handler has returned or its promise was rejected; the next request
\* may arrive
NewsFinish(n) ==
    /\ newsReq[n].pc \in {"done", "rejected"}
    /\ newsReq' = [newsReq EXCEPT ![n] = IdleNewsReq]
    /\ UNCHANGED <<stockCache, newsCache, stockReq, puts, notCacheVars>>

\* time passes: Date.now() advances by one tick
CacheTick ==
    /\ stockCache' = [k \in StockKeys |-> Older(stockCache[k], CACHE_DURATIONS_STOCK)]
    /\ newsCache' = [k \in NewsKeys |-> Older(newsCache[k], CACHE_DURATIONS_NEWS)]
    /\ puts' = [stock |-> [k \in StockKeys |->
                              Older(puts.stock[k], CACHE_DURATIONS_STOCK)],
                news |-> [k \in NewsKeys |->
                              Older(puts.news[k], CACHE_DURATIONS_NEWS)]]
    /\ stockReq' = [r \in StockReqs |-> Waiting(stockReq[r])]
    /\ UNCHANGED <<newsReq, notCacheVars>>

\* the quote handler under concurrent requests, each request slot used once
QuoteNext ==
    \/ \E r \in StockReqs, t \in ReqTickers : StockStart(r, t)
    \/ \E r \in StockReqs, o \in ChartOutcomes : StockChart(r, o)
    \/ \E r \in StockReqs, o \in DetailsOutcomes : StockDetails(r, o)
    \/ CacheTick

\* both handlers, one request of each kind at a time, request after request
CacheNext ==
    \/ \E t \in ReqTickers : StockStart(1, t)
    \/ \E o \in ChartOutcomes : StockChart(1, o)
    \/ \E o \in DetailsOutcomes : StockDetails(1, o)
    \/ StockFinish(1)
    \/ \E n \in NewsReqs, t \in NewsTickers : NewsStart(n, t)
    \/ \E n \in NewsReqs, o \in NewsOutcomes, rejected \in RejectedResps :
           NewsRespond(n, o, rejected)
    \/ \E n \in NewsReqs : NewsFinish(n)
    \/ CacheTick

(***************************************************************************)
(* Claims about the caches and their handlers                              *)
(***************************************************************************)
\* the request was answered from the cache, without any outbound call
StockFromCache(q, data) ==
    q.pc = "done" /\ q.attempts = <<>> /\ q.resp = Resp(200, data)

NewsFromCache(q, data) ==
    q.pc = "done" /\ ~q.searched /\ q.resp = Resp(200, data)

\* C4: in each cache namespace (quotes, TTL 30 s; news, TTL 5 min) a read
\* of a key less than TTL after the last successful store is a hit that
\* returns exactly the stored value, a read at or after TTL goes to the
\* external source, and the entry of a key is always the one of the last
\* store: a read does not delete it, only the next store replaces it.
C4_CacheTTL ==
    /\ stockCache = puts.stock
    /\ newsCache = puts.news
    /\ \A r \in StockReqs :
          stockReq[r].pc # "idle" =>
              IF stockReq[r].saw.fresh
              THEN StockFromCache(stockReq[r], stockReq[r].saw.data)
              ELSE stockReq[r].attempts # <<>>
    /\ \A n \in NewsReqs :
          newsReq[n].pc # "idle" =>
              IF newsReq[n].saw.fresh
              THEN NewsFromCache(newsReq[n], newsReq[n].saw.data)
              ELSE newsReq[n].searched

\* a quote request answered from the cache while a news request goes to the
\* news search although a stale entry is still stored under its key
C4_Witness ==
    /\ stockReq[1].pc = "done" /\ stockReq[1].saw.fresh
    /\ stockCache[stockReq[1].ticker].age = CACHE_DURATIONS_STOCK - 1
    /\ \E n \in NewsReqs :
          /\ newsReq[n].pc = "search"
          /\ newsCache[NewsCacheKey(newsReq[n].ticker)].present
          /\ newsCache[NewsCacheKey(newsReq[n].ticker)].age = CACHE_DURATIONS_NEWS

\* C5 as stated: of two GET /stock/{ticker} within the TTL window only one
\* goes outbound, also when the second arrives while the first is still
\* awaiting its external call; after TTL expiry the second goes outbound.
C5_OneOutboundAnyOrder ==
    \A r2 \in StockReqs :
        stockReq[r2].pc # "idle" =>
            /\ stockReq[r2].saw.fresh => stockReq[r2].attempts = <<>>
            /\ \A r1 \in stockReq[r2].overlapped :
                   stockReq[r1].stored => stockReq[r2].attempts = <<>>
            /\ (~stockReq[r2].saw.fresh /\ stockReq[r2].overlapped = {})
                   => stockReq[r2].attempts # <<>>

\* C5 (amended): a GET /stock/{ticker} that arrives less than 30 s after a
\* completed request stored the quote of the same ticker issues no outbound
\* call and is answered with that request's data; a request that arrives
\* when there is no such store (never stored, the store is 30 s old or
\* older, or the earlier request is still awaiting its calls) goes outbound.
C5_OneOutboundAfterStore ==
    \A r2 \in StockReqs :
        stockReq[r2].pc # "idle" =>
            /\ stockReq[r2].attempts = <<>> <=> stockReq[r2].saw.fresh
            /\ stockReq[r2].saw.fresh =>
                   /\ stockReq[r2].pc = "done"
                   /\ stockReq[r2].resp.status = 200
                   /\ \E r1 \in StockReqs \ {r2} :
                          /\ stockReq[r1].stored
                          /\ stockReq[r1].ticker = stockReq[r2].ticker
                          /\ stockReq[r1].resp = stockReq[r2].resp

\* two requests for the same ticker, the first went outbound and stored,
\* the second was answered from the cache
C5_Witness ==
    \E r1, r2 \in StockReqs :
        /\ r1 # r2
        /\ stockReq[r1].stored /\ stockReq[r1].attempts # <<>>
        /\ stockReq[r2].pc = "done" /\ stockReq[r2].attempts = <<>>
        /\ stockReq[r2].reqTicker # stockReq[r1].reqTicker
        /\ stockReq[r2].ticker = stockReq[r1].ticker

\* the exchanges 1..k in listed order
RECURSIVE UpTo(_)
UpTo(k) == IF k = 0 THEN <<>> ELSE Append(UpTo(k - 1), k)

\* C6: the exchange suffixes are tried in listed order, one at a time, each
\* at most once per request; the response is built from the first exchange
\* that yields a complete result and no later exchange is attempted.
C6_FallbackOrder ==
    \A r \in StockReqs :
        LET q == stockReq[r]
        IN /\ q.attempts = UpTo(q.i)
           /\ q.i <= Len(exchanges)
           /\ q.stored =>
                  /\ q.pc = "done"
                  /\ q.price \in Prices
                  /\ q.resp = Resp(200, StockData(ToUpperCase(q.reqTicker), q.price))

\* [A fails, B fails, C succeeds]: the answer is built from the third
\* exchange after the first two were each tried once
C6_Witness ==
    \E r \in StockReqs :
        /\ stockReq[r].stored
        /\ stockReq[r].attempts = <<1, 2, 3>>
        /\ stockReq[r].lastError # NoMessage

\* the step in which the handler of request r ends without a quote
StockFails(r) ==
    /\ InFlight(stockReq[r])
    /\ stockReq'[r].pc = "done"
    /\ ~stockReq'[r].stored

\* C7: when every exchange fails the handler answers 404 with {error,
\* ticker}: ticker is the upper-cased request ticker, error carries the
\* message of the last error thrown ('Stock <ticker> not found' when no
\* exchange threw); the quote cache is left unchanged and a stale entry is
\* not served.
C7_AllFail404 ==
    [][\A r \in StockReqs :
          StockFails(r) =>
              LET q == stockReq'[r]
              IN /\ q.attempts = UpTo(Len(exchanges))
                 /\ q.resp = Resp(404,
                        ErrorBody(IF q.lastThrown = NoMessage
                                  THEN <<"Stock ", q.reqTicker, " not found">>
                                  ELSE <<"Failed to fetch stock data: ", q.lastThrown>>,
                                  ToUpperCase(q.reqTicker)))
                 /\ stockCache' = stockCache]_vars

\* a request answered 404 with the message of a thrown error while a stale
\* entry of its ticker is in the cache
C7_Witness ==
    \E r \in StockReqs :
        /\ stockReq[r].pc = "done"
        /\ stockReq[r].resp.status = 404
        /\ stockReq[r].lastThrown = ToFixedMessage
        /\ stockReq[r].reqTicker = "msft"
        /\ stockCache[stockReq[r].ticker].present
        /\ stockCache[stockReq[r].ticker].age = CACHE_DURATIONS_STOCK

\* the keys of a cache: those under which an entry is stored
CachedKeys(cacheMap) == {k \in DOMAIN cacheMap : cacheMap[k].present}

\* this step stores into the quote cache (cache.stockData.set, line 539)
StockStored ==
    \E r \in StockReqs : stockReq[r].pc = "details" /\ stockReq'[r].stored

\* this step stores into the news cache (newsCache.set, lines 599 and 617)
NewsStored ==
    \E n \in NewsReqs : newsReq[n].pc = "search" /\ newsReq'[n].outcome = "data"

\* this step ends a request in failure: the quote handler answers 404 from
\* its catch block, or the news handler throws
RequestFails ==
    \/ \E r \in StockReqs :
          /\ stockReq[r].pc \in {"chart", "details"}
          /\ stockReq'[r].pc = "done"
          /\ stockReq'[r].resp.status >= 400
    \/ \E n \in NewsReqs :
          newsReq[n].pc = "search" /\ newsReq'[n].pc = "rejected"

\* C26: no step removes a key from the quote cache or from the news cache
\* (the key set of each only grows), a step that stores into one of the two
\* caches leaves every entry of the other as it was, and a step in which a
\* request ends in failure leaves both caches as they were.
C26_CacheFrame ==
    [][/\ CachedKeys(stockCache) \subseteq CachedKeys(stockCache')
       /\ CachedKeys(newsCache) \subseteq CachedKeys(newsCache')
       /\ StockStored => newsCache' = newsCache
       /\ NewsStored => stockCache' = stockCache
       /\ RequestFails => stockCache' = stockCache /\ newsCache' = newsCache]_vars

\* both caches hold an entry, the quote entry has expired, and a quote
\* request and a news request have just failed
C26_Witness ==
    /\ stockCache["MSFT"].present
    /\ stockCache["MSFT"].age >= CACHE_DURATIONS_STOCK
    /\ newsCache[NewsCacheKey("MSFT")].present
    /\ stockReq[1].pc = "done" /\ stockReq[1].resp.status = 404
    /\ newsReq[1].pc = "rejected"

\* C8: when the news search throws or times out, GET /stock/{ticker}/news
\* answers 200 with a single-element array whose source is "Market Data".
C8_NewsDegrades ==
    \A n \in NewsReqs :
        newsReq[n].outcome = "throw" =>
            /\ newsReq[n].resp.sent
            /\ newsReq[n].resp.status = 200
            /\ newsReq[n].resp.body = DefaultNews(newsReq[n].ticker)

(***************************************************************************)
(* fetchSecFilings: filter, sort and quota selection (lines 215-270)       *)
(***************************************************************************)
\* bounds of the filing model: the longest enumerated list of candidate
\* filings and the latest filing date (dates are counted in years)
MaxFilings == 3
MaxDate    == 4

\* startDate.setFullYear(endDate.getFullYear() - 2)
WindowYears == 2

\* const endDate = new Date() and startDate
endDate   == MaxDate - 1
startDate == endDate - WindowYears

FilingDates == 0..MaxDate

\* the form types of the candidates; "4" stands for every form type that
\* is not selected
AcceptedForms == <<"10-K", "10-Q", "8-K">>
Forms == {"10-K", "10-Q", "8-K", "4"}

\* const limits = { '10-K': 1, '10-Q': 2, '8-K': 2 }
limits == [f \in {"10-K", "10-Q", "8-K"} |-> IF f = "10-K" THEN 1 ELSE 2]

Candidates == [form : Forms, date : FilingDates]

RECURSIVE SeqsUpTo(_, _)
SeqsUpTo(S, n) ==
    IF n = 0 THEN {<<>>}
    ELSE LET shorter == SeqsUpTo(S, n - 1)
         IN shorter \cup {Append(q, x) : q \in {p \in shorter : Len(p) = n - 1}, x \in S}

F(form, date) == [form |-> form, date |-> date]

\* 3 x 10-K, 5 x 10-Q, 1 x 8-K, all inside the window
ThreeFiveOne ==
    <<F("10-Q", endDate), F("10-K", endDate), F("8-K", endDate - 1),
      F("10-Q", endDate - 1), F("10-K", endDate - 1), F("10-Q", endDate - 1),
      F("10-Q", startDate), F("10-K", startDate), F("10-Q", startDate)>>

\* more candidates of every type than its quota, followed by further ones
AllQuotasFull ==
    <<F("8-K", endDate), F("10-Q", endDate), F("10-K", endDate - 1),
      F("10-Q", endDate - 1), F("8-K", endDate - 1), F("8-K", startDate),
      F("10-K", startDate), F("10-Q", startDate)>>

FilingsInit ==
    /\ recentFilings \in SeqsUpTo(Candidates, MaxFilings)
                             \cup {ThreeFiveOne, AllQuotasFull}
    /\ filingsPc = "fetched"
    /\ limitedFilings = <<>>

FilingsIdle ==
    /\ recentFilings = <<>>
    /\ filingsPc = "idle"
    /\ limitedFilings = <<>>

\* ['10-K', '10-Q', '8-K'].includes(form)
IsAcceptedForm(form) == \E k \in 1..Len(AcceptedForms) : AcceptedForms[k] = form

\* !(filingDate < startDate || filingDate > endDate)
InWindow(date) == ~(date < startDate \/ date > endDate)

\* lines 216-245: the filings kept by the for loop, in the order of the
\* response; the url (built from the accession number) identifies the
\* candidate, it is modelled by the candidate's index
RECURSIVE FilterFilings(_, _)
FilterFilings(recent, i) ==
    IF i > Len(recent) THEN <<>>
    ELSE IF ~IsAcceptedForm(recent[i].form) \/ ~InWindow(recent[i].date)
         THEN FilterFilings(recent, i + 1)
         ELSE <<[type |-> recent[i].form, date |-> recent[i].date, url |-> i]>>
                  \o FilterFilings(recent, i + 1)

\* a comparator that puts older filings first
OlderFirst(a, b) == a.date - b.date

\* (a, b) => new Date(b.date) - new Date(a.date)
NewerFirst(a, b) == b.date - a.date

\* Array.prototype.sort with the comparator above: a stable sort
RECURSIVE InsertSorted(_, _)
InsertSorted(sorted, x) ==
    IF sorted = <<>> THEN <<x>>
    ELSE IF NewerFirst(Head(sorted), x) <= 0
         THEN <<Head(sorted)>> \o InsertSorted(Tail(sorted), x)
         ELSE <<x>> \o sorted

RECURSIVE SortFilings(_)
SortFilings(fs) ==
    IF fs = <<>> THEN <<>>
    ELSE InsertSorted(SortFilings(SubSeq(fs, 1, Len(fs) - 1)), fs[Len(fs)])

\* Object.values(counts).every((count, i) => count >= Object.values(limits)[i])
AllQuotasReached(counts) ==
    \A k \in 1..Len(AcceptedForms) :
        counts[AcceptedForms[k]] >= limits[AcceptedForms[k]]

\* lines 255-267: the quota loop from index i on, with its break
RECURSIVE LimitFilings(_, _, _)
LimitFilings(fs, i, counts) ==
    IF i > Len(fs) THEN <<>>
    ELSE LET filing == fs[i]
             taken == counts[filing.type] < limits[filing.type]
             counts2 == IF taken
                        THEN [counts EXCEPT ![filing.type] = counts[filing.type] + 1]
                        ELSE counts
             rest == IF AllQuotasReached(counts2) THEN <<>>
                     ELSE LimitFilings(fs, i + 1, counts2)
         IN IF taken THEN <<filing>> \o rest ELSE rest

\* const counts = { '10-K': 0, '10-Q': 0, '8-K': 0 }
ZeroCounts == [f \in {"10-K", "10-Q", "8-K"} |-> 0]

\* the selection is run on the response: it throws when no filing passes
\* the filter, otherwise it returns the limited list
SelectFilings ==
    /\ filingsPc = "fetched"
    /\ LET filingUrls == FilterFilings(recentFilings, 1)
       IN IF Len(filingUrls) = 0
          THEN /\ filingsPc' = "thrown"
               /\ limitedFilings' = <<>>
          ELSE /\ filingsPc' = "returned"
               /\ limitedFilings' = LimitFilings(SortFilings(filingUrls), 1, ZeroCounts)
    /\ UNCHANGED <<recentFilings, notFilingVars>>

FilingsNext == SelectFilings

(***************************************************************************)
(* Claims about the filing selection                                       *)
(***************************************************************************)
\* the indices of the candidates of form type f dated inside the window
InWindowOf(f) ==
    {i \in 1..Len(recentFilings) :
        recentFilings[i].form = f /\ InWindow(recentFilings[i].date)}

\* the positions of the result that hold a filing of form type f
SelectedOf(f) == {k \in 1..Len(limitedFilings) : limitedFilings[k].type = f}

\* C9: for each form type T in {10-K, 10-Q, 8-K} the result holds exactly
\* min(number of T candidates inside the window, quota of T) filings, the
\* most recent candidates of that type; no filing of another form type or
\* dated outside the window is selected; the result is sorted newest-first.
C9_FilingQuotas ==
    /\ filingsPc = "thrown" =>
           \A f \in {"10-K", "10-Q", "8-K"} : InWindowOf(f) = {}
    /\ filingsPc = "returned" =>
        /\ \A f \in {"10-K", "10-Q", "8-K"} :
              /\ Cardinality(SelectedOf(f)) =
                     Min(Cardinality(InWindowOf(f)), limits[f])
              /\ \A k \in SelectedOf(f), i \in InWindowOf(f) :
                     (\A k2 \in SelectedOf(f) : limitedFilings[k2].url # i)
                         => recentFilings[i].date <= limitedFilings[k].date
        /\ \A k \in 1..Len(limitedFilings) :
              /\ limitedFilings[k].type \in {"10-K", "10-Q", "8-K"}
              /\ limitedFilings[k].url \in InWindowOf(limitedFilings[k].type)
              /\ limitedFilings[k].date = recentFilings[limitedFilings[k].url].date
        /\ \A k1, k2 \in 1..Len(limitedFilings) :
              /\ k1 < k2 => limitedFilings[k1].date >= limitedFilings[k2].date
              /\ k1 # k2 => limitedFilings[k1].url # limitedFilings[k2].url

\* 3 x 10-K, 5 x 10-Q, 1 x 8-K in the window give 1 x 10-K, 2 x 10-Q, 1 x 8-K
C9_Witness ==
    /\ recentFilings = ThreeFiveOne
    /\ filingsPc = "returned"
    /\ Len(limitedFilings) = 4
    /\ Cardinality(SelectedOf("10-K")) = 1
    /\ Cardinality(SelectedOf("10-Q")) = 2
    /\ Cardinality(SelectedOf("8-K")) = 1

(***************************************************************************)
(* retryWithBackoff (lines 676-691)                                        *)
(***************************************************************************)
\* bound of the retry model: the largest maxRetries argument
MaxMaxRetries == 4

\* NaN, the result of parseInt on a string that starts with no digit
NaN == -1

\* error.status of the failures of the operation; NoStatus stands for an
\* error without a status (a network failure)
NoStatus == 0
ErrorStatuses == {429, 500, NoStatus}

\* error.headers?.['retry-after'] as a string of characters; the empty
\* string stands for a missing header (or missing headers)
RetryAfterHeaders == {<<>>, <<"7">>, <<"W", "e", "d">>}

Digits == <<"0", "1", "2", "3", "4", "5", "6", "7", "8", "9">>

IsDigit(ch) == \E d \in 1..Len(Digits) : Digits[d] = ch

DigitValue(ch) == (CHOOSE d \in 1..Len(Digits) : Digits[d] = ch) - 1

\* the value of the leading digits of str, read after the value acc
RECURSIVE LeadingDigits(_, _)
LeadingDigits(str, acc) ==
    IF str = <<>> \/ ~IsDigit(Head(str)) THEN acc
    ELSE LeadingDigits(Tail(str), 10 * acc + DigitValue(Head(str)))

\* parseInt(str)
ParseInt(str) ==
    IF str = <<>> \/ ~IsDigit(Head(str)) THEN NaN ELSE LeadingDigits(str, 0)

\* const retryAfter = parseInt(error.headers?.['retry-after'] || '30');
\* const waitTime = retryAfter * 1000
WaitTime(header) ==
    LET retryAfter == ParseInt(IF header = <<>> THEN <<"3", "0">> ELSE header)
    IN IF retryAfter = NaN THEN NaN ELSE retryAfter * 1000

\* the outcomes of operation(): a value, or an error
OperationOutcomes ==
    {[ok |-> TRUE, status |-> NoStatus, header |-> <<>>]}
    \cup {[ok |-> FALSE, status |-> st, header |-> h] :
              st \in ErrorStatuses, h \in RetryAfterHeaders}

NoOutcome == [ok |-> FALSE, status |-> NoStatus, header |-> <<>>]

EmptyLog == [invocations |-> 0, failures |-> <<>>, delays |-> <<>>]

RetryInit ==
    /\ retry \in {[pc |-> "entry", maxRetries |-> m, i |-> 0,
                   result |-> "none", thrown |-> NoOutcome] : m \in 0..MaxMaxRetries}
    /\ retryLog = EmptyLog

RetryIdle ==
    /\ retry = [pc |-> "idle", maxRetries |-> 0, i |-> 0,
                result |-> "none", thrown |-> NoOutcome]
    /\ retryLog = EmptyLog

\* the loop test i < maxRetries with the loop variable at i: the operation
\* is invoked, or the loop ends and the function returns undefined
LoopTest(r, i, log) ==
    IF i < r.maxRetries
    THEN /\ retry' = [r EXCEPT !.pc = "operation", !.i = i]
         /\ retryLog' = [log EXCEPT !.invocations = log.invocations + 1]
    ELSE /\ retry' = [r EXCEPT !.pc = "returned", !.i = i, !.result = "undefined"]
         /\ retryLog' = log

\* retryWithBackoff is called
RetryEnter ==
    /\ retry.pc = "entry"
    /\ LoopTest(retry, 0, retryLog)
    /\ UNCHANGED notRetryVars

\* a retry is granted after every failure
AttemptsRemainAlways(i, maxRetries) == i < maxRetries

\* i < maxRetries - 1
AttemptsRemain(i, maxRetries) == i < maxRetries - 1

\* operation() settles: its value is returned, or the catch block runs
RetryOperationSettles(o) ==
    /\ retry.pc = "operation"
    /\ IF o.ok
       THEN /\ retry' = [retry EXCEPT !.pc = "returned", !.result = "value"]
            /\ retryLog' = retryLog
       ELSE LET log == [retryLog EXCEPT !.failures = Append(retryLog.failures, o)]
            IN IF o.status = 429 /\ AttemptsRemain(retry.i, retry.maxRetries)
               THEN /\ retry' = [retry EXCEPT !.pc = "sleeping"]
                    /\ retryLog' = [log EXCEPT !.delays =
                                        Append(log.delays, WaitTime(o.header))]
               ELSE /\ retry' = [retry EXCEPT !.pc = "thrown", !.thrown = o]
                    /\ retryLog' = log
    /\ UNCHANGED notRetryVars

\* the timer of the delay fires: continue, i++ and the loop test
RetryTimer ==
    /\ retry.pc = "sleeping"
    /\ LoopTest(retry, retry.i + 1, retryLog)
    /\ UNCHANGED notRetryVars

RetryNext ==
    \/ RetryEnter
    \/ \E o \in OperationOutcomes : RetryOperationSettles(o)
    \/ RetryTimer

(***************************************************************************)
(* Claims about retryWithBackoff                                           *)
(***************************************************************************)
LastFailure == retryLog.failures[Len(retryLog.failures)]

\* C10: for maxRetries >= 1 the operation is invoked at least once and at
\* most maxRetries times; the first successful result is returned with no
\* further invocation; a failure that is not a rate-limit condition is
\* propagated at once, with no delay after it; if every attempt fails with
\* a rate-limit condition the operation is invoked exactly maxRetries times
\* and the last failure is propagated.
C10_RetryBounded ==
    retry.maxRetries >= 1 =>
        /\ retryLog.invocations <= retry.maxRetries
        /\ retry.pc # "entry" => retryLog.invocations >= 1
        \* every failure before the last one was a rate-limit failure and
        \* was followed by one delay
        /\ \A k \in 1..Len(retryLog.failures) - 1 :
               retryLog.failures[k].status = 429
        /\ retry.pc = "operation" =>
               /\ retryLog.invocations = Len(retryLog.failures) + 1
               /\ Len(retryLog.delays) = Len(retryLog.failures)
        /\ retry.pc = "returned" =>
               /\ retry.result = "value"
               /\ retryLog.invocations = Len(retryLog.failures) + 1
        /\ retry.pc = "thrown" =>
               /\ retry.thrown = LastFailure
               /\ retryLog.invocations = Len(retryLog.failures)
               /\ Len(retryLog.delays) = Len(retryLog.failures) - 1
               /\ LastFailure.status = 429 =>
                      retryLog.invocations = retry.maxRetries

\* every attempt of three fails with a rate-limit condition: three
\* invocations, two delays, the last failure propagated
C10_Witness ==
    /\ retry.maxRetries = 3
    /\ retry.pc = "thrown"
    /\ retry.thrown.status = 429
    /\ retryLog.invocations = 3
    /\ Len(retryLog.delays) = 2

\* C22: failures of the wrapped operation that are not rate-limit signals
\* (transient and network failures) are retried a bounded number of times
\* before the failure surfaces: when retries are allowed (maxRetries >= 2),
\* a failure is thrown to the caller only after the operation was invoked
\* again at least once, and at most maxRetries times in all.
C22_TransientRetried ==
    (/\ retry.pc = "thrown"
     /\ retry.maxRetries >= 2
     /\ \A k \in 1..Len(retryLog.failures) :
            retryLog.failures[k].status # 429) =>
        /\ retryLog.invocations >= 2
        /\ retryLog.invocations <= retry.maxRetries

\* the retry-after header of a failure names a number of seconds
SecondsSupplied(o) ==
    /\ o.header # <<>>
    /\ \A j \in 1..Len(o.header) : IsDigit(o.header[j])

\* C23: the delay before a retry after a rate-limited failure is the
\* server-suggested retry-after value in seconds when one is supplied, and
\* is otherwise computed exponentially from the attempt number: of two
\* successive delays without a suggested value, the later is the larger.
C23_SuggestedOrExponential ==
    \A k \in 1..Len(retryLog.delays) :
        /\ SecondsSupplied(retryLog.failures[k]) =>
               retryLog.delays[k] = 1000 * LeadingDigits(retryLog.failures[k].header, 0)
        /\ (/\ k + 1 <= Len(retryLog.delays)
            /\ retryLog.failures[k].header = <<>>
            /\ retryLog.failures[k + 1].header = <<>>) =>
               retryLog.delays[k + 1] > retryLog.delays[k]

(***************************************************************************)
(* fetchFilingContent: cleaning and section extraction                     *)
(*                                                                         *)
(* A text is a sequence of tokens: a word, a white-space character, a tag, *)
(* a heading.  Lengths are counted in tokens, every token standing for     *)
(* TokenChars characters of the text.                                      *)
(***************************************************************************)
MaxTextLen == 4

TokenChars == 5 * 500

\* const sectionMarkers = [...]
sectionMarkers ==
    << "ITEM 1. BUSINESS",
       "ITEM 1A. RISK FACTORS",
       "ITEM 2. MANAGEMENT",
       "ITEM 3. FINANCIAL",
       "ITEM 7. MANAGEMENT'S DISCUSSION",
       "ITEM 7A. QUANTITATIVE AND QUALITATIVE DISCLOSURES" >>

\* what \s matches
Whitespace == {" ", "\n"}

\* what /<(?!p|br)([^>]+)>/ matches
Tags == {"<div>", "<TEXT>", "</TEXT>"}

\* what /ITEM\s+\d+[A-Z]?\./i matches, apart from the start of a marker
ItemHeadings == {"Item 5."}

FilingTokens ==
    {"w", "ITEM 1. BUSINESS", "item 1a. risk factors"}
        \cup Whitespace \cup Tags \cup ItemHeadings

\* String.prototype.toUpperCase on a token
LineToUpperCase(t) ==
    IF t = "item 1a. risk factors" THEN "ITEM 1A. RISK FACTORS"
    ELSE IF t = "Item 5." THEN "ITEM 5."
    ELSE IF t = "w" THEN "W"
    ELSE t

\* the values response.data takes
FilingTexts == SeqsUpTo(FilingTokens, MaxTextLen)

\* the least index i >= from with s[i] = x, 0 when there is none
FirstIndex(s, x, from) ==
    LET I == {i \in from..Len(s) : s[i] = x}
    IN IF I = {} THEN 0 ELSE CHOOSE i \in I : \A j \in I : i <= j

\* text.match(/<TEXT>([\s\S]*?)<\/TEXT>/i): textMatch[1] when it matches
TextMatch(text) ==
    LET open  == FirstIndex(text, "<TEXT>", 1)
        close == IF open = 0 THEN 0 ELSE FirstIndex(text, "</TEXT>", open + 1)
    IN IF close = 0 THEN text ELSE SubSeq(text, open + 1, close - 1)

\* .replace(/<(?!p|br)([^>]+)>/g, '\n')
RECURSIVE ReplaceTags(_)
ReplaceTags(s) ==
    IF s = <<>> THEN <<>>
    ELSE <<IF Head(s) \in Tags THEN "\n" ELSE Head(s)>> \o ReplaceTags(Tail(s))

\* the number of white-space tokens s starts with
RECURSIVE LeadingWhitespace(_)
LeadingWhitespace(s) ==
    IF s = <<>> \/ Head(s) \notin Whitespace THEN 0
    ELSE 1 + LeadingWhitespace(Tail(s))

\* .replace(/\n\s*\n/g, '\n'): a newline, the white space after it and the
\* last newline of that white space become one newline
RECURSIVE RemoveBlankLines(_)
RemoveBlankLines(s) ==
    IF s = <<>> THEN <<>>
    ELSE IF Head(s) = "\n"
         THEN LET rest == Tail(s)
                  N == {j \in 1..LeadingWhitespace(rest) : rest[j] = "\n"}
                  last == IF N = {} THEN 0
                          ELSE CHOOSE j \in N : \A k \in N : k <= j
              IN <<"\n">> \o RemoveBlankLines(SubSeq(rest, last + 1, Len(rest)))
         ELSE <<Head(s)>> \o RemoveBlankLines(Tail(s))

\* .replace(/\s+/g, ' ')
RECURSIVE CollapseWhitespace(_)
CollapseWhitespace(s) ==
    IF s = <<>> THEN <<>>
    ELSE IF Head(s) \in Whitespace
         THEN <<" ">> \o CollapseWhitespace(
                  SubSeq(s, LeadingWhitespace(s) + 1, Len(s)))
         ELSE <<Head(s)>> \o CollapseWhitespace(Tail(s))

\* String.prototype.trim
RECURSIVE TrimEnd(_)
TrimEnd(s) ==
    IF s = <<>> \/ s[Len(s)] \notin Whitespace THEN s
    ELSE TrimEnd(SubSeq(s, 1, Len(s) - 1))

Trim(s) == TrimEnd(SubSeq(s, LeadingWhitespace(s) + 1, Len(s)))

\* lines 312-323 (the input has no <head>, <style>, <script> block, no <p>
\* or <br> tag and no entity)
CleanText(text) ==
    Trim(CollapseWhitespace(RemoveBlankLines(ReplaceTags(text))))

\* String.prototype.split on the separators seps
RECURSIVE Split(_, _)
Split(s, seps) ==
    IF s = <<>> THEN << <<>> >>
    ELSE LET rest == Split(Tail(s), seps)
         IN IF Head(s) \in seps
            THEN << <<>> >> \o rest
            ELSE << <<Head(s)>> \o Head(rest) >> \o Tail(rest)

\* String.prototype.substring(from, to), in characters
Substring(s, from, to) ==
    SubSeq(s, (from \div TokenChars) + 1, Min(Len(s), to \div TokenChars))

\* let currentSection = ''
NoSection == ""

\* upperLine.includes(marker)
Includes(line, marker) ==
    \E i \in 1..Len(line) : LineToUpperCase(line[i]) = marker

\* sectionMarkers.find(marker => upperLine.includes(marker))
MatchedMarker(line) ==
    LET K == {k \in 1..Len(sectionMarkers) : Includes(line, sectionMarkers[k])}
    IN IF K = {} THEN NoSection
       ELSE sectionMarkers[CHOOSE k \in K : \A j \in K : k <= j]

\* a section; the title `ITEM ${index + 1}` is ("ITEM", index + 1)
Section(title, n, content) ==
    [title |-> title, number |-> n, content |-> content]

\* if (currentSection && currentContent) sections.push(...)
PushCurrent(acc) ==
    IF acc.currentSection # NoSection /\ acc.currentContent # <<>>
    THEN Append(acc.sections,
                Section(acc.currentSection, 0, Trim(acc.currentContent)))
    ELSE acc.sections

\* text.split('\n').forEach(line => ...), lines 339-352
RECURSIVE ScanLines(_, _)
ScanLines(lines, acc) ==
    IF lines = <<>> THEN acc
    ELSE LET line == Head(lines)
             matchedMarker == MatchedMarker(line)
             next ==
                IF matchedMarker # NoSection
                THEN [sections |-> PushCurrent(acc),
                      currentSection |-> matchedMarker,
                      currentContent |-> line \o <<"\n">>]
                ELSE IF acc.currentSection # NoSection
                     THEN [acc EXCEPT !.currentContent = @ \o line \o <<"\n">>]
                     ELSE acc
         IN ScanLines(Tail(lines), next)

\* lines 326-356
MarkerSections(text) ==
    PushCurrent(ScanLines(Split(text, {"\n"}),
        [sections |-> <<>>, currentSection |-> NoSection,
         currentContent |-> <<>>]))

\* text.split(/ITEM\s+\d+[A-Z]?\./i).filter(Boolean); the text has no
\* marker when this is evaluated
ItemSections(text) == SelectSeq(Split(text, ItemHeadings), LAMBDA p : p # <<>>)

\* lines 358-377
FallbackSections(text) ==
    LET itemSections == ItemSections(text)
    IN IF Len(itemSections) > 0
       THEN [index \in 1..Len(itemSections) |->
                Section("ITEM", index, Trim(itemSections[index]))]
       ELSE <<Section("FILING CONTENT", 0, Substring(text, 0, 15000))>>

ExtractSections(text) ==
    LET sections == MarkerSections(text)
    IN IF Len(sections) = 0 THEN FallbackSections(text) ELSE sections

\* section.content.substring(0, 5000), without the bound
FormatSectionWhole(section) == section

\* `### ${section.title} ###\n${section.content.substring(0, 5000)}`
FormatSection(section) ==
    [section EXCEPT !.content = Substring(section.content, 0, 5000)]

\* lines 380-382: the formatted sections, in the order they are joined
FormattedContent(sections) ==
    [k \in 1..Len(sections) |-> FormatSection(sections[k])]

IdleFiling == [pc |-> "idle", data |-> <<>>, formattedContent |-> <<>>,
               message |-> ""]

ExtractInit == filingDoc \in {[IdleFiling EXCEPT !.pc = "request", !.data = d] :
                                d \in FilingTexts}

ExtractIdle == filingDoc = IdleFiling

\* makeSecRequest returns the 200 response: lines 300-385, and the catch
FilingContentArrives ==
    /\ filingDoc.pc = "request"
    /\ filingDoc' =
          IF filingDoc.data = <<>>
          THEN [filingDoc EXCEPT !.pc = "thrown",
                  !.message = "Could not fetch filing content: Invalid filing content received"]
          ELSE [filingDoc EXCEPT !.pc = "returned",
                  !.formattedContent = FormattedContent(
                      ExtractSections(CleanText(TextMatch(filingDoc.data))))]
    /\ UNCHANGED notExtractVars

\* makeSecRequest throws (the limiter, the network or a status other than
\* 200): the catch of fetchFilingContent rethrows
FilingContentFails ==
    /\ filingDoc.pc = "request"
    /\ filingDoc' = [filingDoc EXCEPT !.pc = "thrown",
                        !.message = "Could not fetch filing content: SEC request failed"]
    /\ UNCHANGED notExtractVars

ExtractNext == FilingContentArrives \/ FilingContentFails

(***************************************************************************)
(* Claims about fetchFilingContent                                         *)
(***************************************************************************)
\* the text the section extraction is applied to
Cleaned == CleanText(TextMatch(filingDoc.data))

\* the positions of the recognised markers in a text
MarkerPositions(text) ==
    {i \in 1..Len(text) :
        \E k \in 1..Len(sectionMarkers) : LineToUpperCase(text[i]) = sectionMarkers[k]}

HasMarker(text) == MarkerPositions(text) # {}

HasItemHeading(text) == \E i \in 1..Len(text) : text[i] \in ItemHeadings

\* the end of the section that starts at position i: the position before
\* the next marker, or the end of the text
SectionEnd(text, i) ==
    LET later == {j \in MarkerPositions(text) : j > i}
    IN IF later = {} THEN Len(text)
       ELSE (CHOOSE j \in later : \A k \in later : j <= k) - 1

\* the positions of a set, in increasing order
RECURSIVE Ascending(_)
Ascending(P) ==
    IF P = {} THEN <<>>
    ELSE LET least == CHOOSE i \in P : \A j \in P : i <= j
         IN <<least>> \o Ascending(P \ {least})

\* one section per marker occurrence, titled by the marker, holding the
\* text from the marker up to the next marker
SectionsByMarker(text) ==
    LET at == Ascending(MarkerPositions(text))
    IN [k \in 1..Len(at) |->
           Section(LineToUpperCase(text[at[k]]), 0,
                   Trim(SubSeq(text, at[k], SectionEnd(text, at[k]))))]

\* C11: in the cleaned filing text, material before the first recognised
\* marker is discarded, the text between two markers is grouped under the
\* preceding marker (one section per marker occurrence, titled by that
\* marker), and each section's content is truncated to at most 5000
\* characters.
C11_SectionsByMarker ==
    (filingDoc.pc = "returned" /\ HasMarker(Cleaned)) =>
        LET expected == SectionsByMarker(Cleaned)
            out == filingDoc.formattedContent
        IN /\ Len(out) = Len(expected)
           /\ \A k \in 1..Len(out) :
                 /\ out[k].title = expected[k].title
                 /\ out[k].content = Substring(expected[k].content, 0, 5000)
                 /\ Len(out[k].content) * TokenChars <= 5000

\* a prefix of the text of at most 5000 characters
IsBoundedPrefix(content, text) ==
    /\ Len(content) * TokenChars <= 5000
    /\ Len(content) <= Len(text)
    /\ content = SubSeq(text, 1, Len(content))

\* the first 5000 characters of the text, all of it when it is shorter
IsFirstChars(content, text) ==
    /\ IsBoundedPrefix(content, text)
    /\ Len(content) = Min(Len(text), 5000 \div TokenChars)

TranslateReqs == {1, 2}

\* text.length > 5000
MaxTranslateLength == 5000

\* req.body.text: undefined, or a string of the given length
NoText == [defined |-> FALSE, length |-> 0]
Text(n) == [defined |-> TRUE, length |-> n]

TranslateTexts ==
    {NoText, Text(0), Text(1), Text(MaxTranslateLength), Text(MaxTranslateLength + 1)}

\* const maxRetries = 3 (the default of retryWithBackoff)
DefaultMaxRetries == 3

\* the errors translate(text, { to: 'iw' }) rejects with: message, status
TranslateError(words, status) == [message |-> words, status |-> status]

NoTranslateError == TranslateError(<<"none">>, NoStatus)

TranslateErrors ==
    { TranslateError(<<"network", "timeout">>, NoStatus),
      TranslateError(<<"rate", "limit">>, NoStatus),
      TranslateError(<<"rate", "limit">>, 429),
      TranslateError(<<"Too Many Requests">>, 429),
      TranslateError(<<"network", "rate">>, NoStatus),
      TranslateError(<<"language", "not supported">>, NoStatus),
      TranslateError(<<"rate", "not supported">>, NoStatus),
      TranslateError(<<"BAD_REQUEST">>, NoStatus) }

\* what translate settles with: a result, an empty result, an error
TranslateOutcomes ==
    {[kind |-> "result", error |-> NoTranslateError],
     [kind |-> "empty", error |-> NoTranslateError]}
        \cup {[kind |-> "error", error |-> e] : e \in TranslateErrors}

\* error.message.includes(word)
MessageIncludes(message, word) ==
    \E i \in 1..Len(message) : message[i] = word

\* if (!text)
TextMissing(text) == ~text.defined \/ text.length = 0

\* if (text.length > 5000), with the bound included
TextTooLongInclusive(text) == text.length >= MaxTranslateLength

\* if (text.length > 5000)
TextTooLong(text) == text.length > MaxTranslateLength

\* lines 840-856: the status and the code of the error response
TranslateFailure(message) ==
    IF MessageIncludes(message, "network")
    THEN [status |-> 503, code |-> "NETWORK_ERROR"]
    ELSE IF MessageIncludes(message, "rate")
    THEN [status |-> 429, code |-> "RATE_LIMIT"]
    ELSE IF MessageIncludes(message, "not supported")
    THEN [status |-> 400, code |-> "UNSUPPORTED_LANGUAGE"]
    ELSE [status |-> 500, code |-> "TRANSLATION_FAILED"]

\* res.status(statusCode).json({ error, code, message })
TranslateErrorResp(message) ==
    LET f == TranslateFailure(message)
    IN Resp(f.status, [kind |-> "error", code |-> f.code, message |-> message])

IdleTranslateReq ==
    [pc |-> "idle", text |-> NoText, i |-> 0, calls |-> 0,
     thrown |-> NoTranslateError, resp |-> NoResp]

TranslateInit == translateReq = [r \in TranslateReqs |-> IdleTranslateReq]

TranslateIdle == TranslateInit

\* the request arrives: lines 805-823, up to the first await
TranslateStart(r, text) ==
    /\ translateReq[r].pc = "idle"
    /\ translateReq' = [translateReq EXCEPT ![r] =
          IF TextMissing(text)
          THEN [IdleTranslateReq EXCEPT !.pc = "done", !.text = text,
                  !.resp = Resp(400, [kind |-> "error", code |-> "MISSING_TEXT",
                                      message |-> <<>>])]
          ELSE IF TextTooLong(text)
          THEN [IdleTranslateReq EXCEPT !.pc = "done", !.text = text,
                  !.resp = Resp(400, [kind |-> "error", code |-> "TEXT_TOO_LONG",
                                      message |-> <<>>])]
          ELSE [IdleTranslateReq EXCEPT !.pc = "translate", !.text = text,
                  !.calls = 1]]
    /\ UNCHANGED notTranslateVars

\* translate settles: the operation of retryWithBackoff returns or throws,
\* and retryWithBackoff returns, waits or rethrows (lines 676-691, 821-856)
TranslateSettles(r, o) ==
    /\ translateReq[r].pc = "translate"
    /\ LET q == translateReq[r]
           error == IF o.kind = "empty"
                    THEN TranslateError(<<"Empty translation result">>, NoStatus)
                    ELSE o.error
       IN translateReq' = [translateReq EXCEPT ![r] =
             IF o.kind = "result"
             THEN [q EXCEPT !.pc = "done",
                      !.resp = Resp(200, [kind |-> "translation",
                                          originalText |-> q.text])]
             ELSE IF error.status = 429 /\ AttemptsRemain(q.i, DefaultMaxRetries)
             THEN [q EXCEPT !.pc = "backoff", !.thrown = error]
             ELSE [q EXCEPT !.pc = "done", !.thrown = error,
                      !.resp = TranslateErrorResp(error.message)]]
    /\ UNCHANGED notTranslateVars

\* the timer of the backoff fires: continue, the next iteration calls
\* translate again
TranslateRetry(r) ==
    /\ translateReq[r].pc = "backoff"
    /\ translateReq' = [translateReq EXCEPT ![r].pc = "translate",
                           ![r].i = @ + 1, ![r].calls = @ + 1]
    /\ UNCHANGED notTranslateVars

\* the request is over; the slot takes another one
TranslateFinish(r) ==
    /\ translateReq[r].pc = "done"
    /\ translateReq' = [translateReq EXCEPT ![r] = IdleTranslateReq]
    /\ UNCHANGED notTranslateVars

TranslateNext ==
    \/ \E r \in TranslateReqs, text \in TranslateTexts : TranslateStart(r, text)
    \/ \E r \in TranslateReqs, o \in TranslateOutcomes : TranslateSettles(r, o)
    \/ \E r \in TranslateReqs : TranslateRetry(r)
    \/ \E r \in TranslateReqs : TranslateFinish(r)

(***************************************************************************)
(* Claims about POST /api/translate                                        *)
(***************************************************************************)
\* the request was answered with this status and code
Answered(q, status, code) ==
    /\ q.resp.sent
    /\ q.resp.status = status
    /\ q.resp.body.kind = "error"
    /\ q.resp.body.code = code

\* the translation of the request failed
TranslationFailed(q) == q.pc = "done" /\ q.calls > 0 /\ q.resp.status # 200

\* the failure is a network failure, a rate-limit failure
NetworkFailure(q) == MessageIncludes(q.thrown.message, "network")
RateLimitFailure(q) ==
    ~NetworkFailure(q) /\ MessageIncludes(q.thrown.message, "rate")
UnsupportedFailure(q) ==
    /\ ~NetworkFailure(q) /\ ~MessageIncludes(q.thrown.message, "rate")
    /\ MessageIncludes(q.thrown.message, "not supported")

\* the part of C13 about the request's text
TextValidated(q) ==
    q.pc = "done" =>
        /\ (~q.text.defined \/ q.text.length = 0) =>
               Answered(q, 400, "MISSING_TEXT") /\ q.calls = 0
        /\ (q.text.defined /\ q.text.length > 5000) =>
               Answered(q, 400, "TEXT_TOO_LONG") /\ q.calls = 0
        /\ (q.text.defined /\ q.text.length \in 1..5000) => q.calls > 0

\* C13 as stated: missing or empty text is answered 400 MISSING_TEXT and
\* text longer than 5000 characters 400 TEXT_TOO_LONG (exactly 5000 is
\* accepted), both without invoking the translation service; a failed
\* translation is answered 503 NETWORK_ERROR for a network failure, 429
\* RATE_LIMIT for a rate-limit failure and 500 TRANSLATION_FAILED for every
\* other failure.
C13_TranslateStatuses ==
    \A r \in TranslateReqs :
        LET q == translateReq[r]
        IN /\ TextValidated(q)
           /\ TranslationFailed(q) =>
                 IF NetworkFailure(q) THEN Answered(q, 503, "NETWORK_ERROR")
                 ELSE IF RateLimitFailure(q) THEN Answered(q, 429, "RATE_LIMIT")
                 ELSE Answered(q, 500, "TRANSLATION_FAILED")

\* C13, amended: as stated, except that a failure whose message contains
\* 'not supported' (and neither 'network' nor 'rate') is answered 400
\* UNSUPPORTED_LANGUAGE; a network failure is one whose message contains
\* 'network', a rate-limit failure one whose message contains 'rate'.
C13_TranslateStatusesUnsupported ==
    \A r \in TranslateReqs :
        LET q == translateReq[r]
        IN /\ TextValidated(q)
           /\ TranslationFailed(q) =>
                 IF NetworkFailure(q) THEN Answered(q, 503, "NETWORK_ERROR")
                 ELSE IF RateLimitFailure(q) THEN Answered(q, 429, "RATE_LIMIT")
                 ELSE IF UnsupportedFailure(q)
                      THEN Answered(q, 400, "UNSUPPORTED_LANGUAGE")
                 ELSE Answered(q, 500, "TRANSLATION_FAILED")

C13_Witness ==
    \E r \in TranslateReqs :
        LET q == translateReq[r]
        IN /\ q.pc = "done"
           /\ q.text = Text(5000)
           /\ q.calls = 3
           /\ UnsupportedFailure(q)
           /\ Answered(q, 400, "UNSUPPORTED_LANGUAGE")

(***************************************************************************)
(* POST /api/analyze/sec, with getCIK, fetchSecFilings and                 *)
(* fetchFilingContent calling makeSecRequest                               *)
(*                                                                         *)
(* The handler of caller c makes its SEC requests as caller c of the       *)
(* limiter: secCall[c] is the makeSecRequest it awaits.                    *)
(***************************************************************************)
\* the callers of the limiter that are handlers of POST /api/analyze/sec
AnalyzeReqs == {1, 2}

\* req.body.ticker: undefined (or empty), or a symbol
NoTicker == ""
AnalyzeTickers == {NoTicker, "ZZZZ", "msft"}

\* the tickers of response.data of the CIK lookup
Companies == {"MSFT"}

\* response.data of the submissions request: not of the expected format,
\* or filings.recent
NoFilingsData == <<F("invalid", 0)>>
SubmissionsData ==
    {NoFilingsData, <<>>, <<F("4", endDate)>>, <<F("10-K", endDate)>>,
     <<F("8-K", endDate - 1), F("10-K", endDate)>>}

\* what openai.chat.completions.create settles with
AiOutcomes ==
    {[kind |-> "completion", status |-> NoStatus, message |-> ""],
     [kind |-> "error", status |-> 429, message |-> "Rate limit reached"],
     [kind |-> "error", status |-> 500, message |-> "Internal server error"],
     [kind |-> "error", status |-> NoStatus, message |-> "Connection error"]}

\* the same response with the details left out
AnalyzeErrorRespBare(status, details) ==
    Resp(IF status = NoStatus THEN 500 ELSE status,
         [kind |-> "error", error |-> "Failed to analyze SEC filings",
          details |-> <<>>])

\* res.status(error.status || 500).json({ error, details })
AnalyzeErrorResp(status, details) ==
    Resp(IF status = NoStatus THEN 500 ELSE status,
         [kind |-> "error", error |-> "Failed to analyze SEC filings",
          details |-> details])

IdleAnalyzeReq ==
    [pc |-> "idle", ticker |-> NoTicker, filings |-> <<>>, k |-> 0, i |-> 0,
     aiCalls |-> 0, analyzedFilings |-> <<>>, failed |-> "none", resp |-> NoResp]

AnalyzeInit == analyzeReq = [c \in AnalyzeReqs |-> IdleAnalyzeReq]

AnalyzeIdle == AnalyzeInit

\* a catch that answers with the filings analysed so far
AnalyzeThrowsPartial(q, failed, status, details) ==
    [q EXCEPT !.pc = "done", !.failed = failed,
              !.resp = Resp(200, [kind |-> "analysis", ticker |-> q.ticker,
                                  filings |-> q.analyzedFilings])]

\* the catch of the handler: the response for the error thrown at a step
AnalyzeThrows(q, failed, status, details) ==
    [q EXCEPT !.pc = "done", !.failed = failed,
              !.resp = AnalyzeErrorResp(status, details)]

\* the request arrives: lines 695-703
AnalyzeStart(c, ticker) ==
    /\ analyzeReq[c].pc = "idle"
    /\ secCall[c].pc = "idle"
    /\ analyzeReq' = [analyzeReq EXCEPT ![c] =
          IF ticker = NoTicker
          THEN [IdleAnalyzeReq EXCEPT !.pc = "done",
                  !.resp = Resp(400, [kind |-> "ticker-required",
                                      error |-> "Ticker is required"])]
          ELSE [IdleAnalyzeReq EXCEPT !.pc = "cik", !.ticker = ticker]]
    /\ UNCHANGED <<secVars, notAnalyzeSecVars>>

\* getCIK, fetchSecFilings or fetchFilingContent calls makeSecRequest
AnalyzeSecCall(c) ==
    /\ analyzeReq[c].pc \in {"cik", "submissions", "content"}
    /\ SecStart(c)

\* makeSecRequest(EDGAR_CIK_LOOKUP_URL) settles: lines 157-175
AnalyzeCikReturns(c) ==
    /\ analyzeReq[c].pc = "cik"
    /\ secCall[c].pc = "done"
    /\ LET q == analyzeReq[c]
           call == secCall[c]
       IN analyzeReq' = [analyzeReq EXCEPT ![c] =
             IF call.outcome # "ok"
             THEN AnalyzeThrows(q, "cik-request", NoStatus,
                      <<"Could not find CIK for ticker", q.ticker,
                        call.error.message>>)
             ELSE IF ToUpperCase(q.ticker) \notin Companies
             THEN AnalyzeThrows(q, "no-cik", NoStatus,
                      <<"Could not find CIK for ticker", q.ticker,
                        "No CIK found for ticker", q.ticker>>)
             ELSE [q EXCEPT !.pc = "submissions"]]
    /\ secCall' = [secCall EXCEPT ![c] = IdleCall]
    /\ UNCHANGED <<secNow, secRateLimiter, secIssued, notAnalyzeSecVars>>

\* makeSecRequest(dataUrl) settles: lines 196-274
AnalyzeSubmissionsReturn(c, data) ==
    /\ analyzeReq[c].pc = "submissions"
    /\ secCall[c].pc = "done"
    /\ LET q == analyzeReq[c]
           call == secCall[c]
           filingUrls == FilterFilings(data, 1)
       IN analyzeReq' = [analyzeReq EXCEPT ![c] =
             IF call.outcome # "ok"
             THEN AnalyzeThrows(q, "submissions-request", NoStatus,
                      <<call.error.message>>)
             ELSE IF data = NoFilingsData
             THEN AnalyzeThrows(q, "format", NoStatus,
                      <<"Invalid response format from SEC API">>)
             ELSE IF Len(filingUrls) = 0
             THEN AnalyzeThrows(q, "no-filings", NoStatus,
                      <<"No filings found for", q.ticker, "in the last 2 years">>)
             ELSE [q EXCEPT !.pc = "content", !.k = 1,
                     !.filings = LimitFilings(SortFilings(filingUrls), 1, ZeroCounts)]]
    /\ secCall' = [secCall EXCEPT ![c] = IdleCall]
    /\ UNCHANGED <<secNow, secRateLimiter, secIssued, notAnalyzeSecVars>>

\* makeSecRequest of fetchFilingContent settles (lines 286-389), and the
\* completion is requested: lines 710-713
AnalyzeContentReturns(c, valid) ==
    /\ analyzeReq[c].pc = "content"
    /\ secCall[c].pc = "done"
    /\ LET q == analyzeReq[c]
           call == secCall[c]
       IN analyzeReq' = [analyzeReq EXCEPT ![c] =
             IF call.outcome # "ok"
             THEN AnalyzeThrows(q, "content-request", NoStatus,
                      <<"Could not fetch filing content:", call.error.message>>)
             ELSE IF ~valid
             THEN AnalyzeThrows(q, "content", NoStatus,
                      <<"Could not fetch filing content:",
                        "Invalid filing content received">>)
             ELSE [q EXCEPT !.pc = "ai", !.i = 0, !.aiCalls = @ + 1]]
    /\ secCall' = [secCall EXCEPT ![c] = IdleCall]
    /\ UNCHANGED <<secNow, secRateLimiter, secIssued, notAnalyzeSecVars>>

\* lines 774-778: { type: filing.type, date: filing.date, analysis }
AnalyzedFiling(filing) ==
    [type |-> filing.type, date |-> filing.date, analysis |-> "analysis"]

\* the completion settles: retryWithBackoff returns (and the analysis is
\* pushed), waits or rethrows
AnalyzeAiSettles(c, o) ==
    /\ analyzeReq[c].pc = "ai"
    /\ LET q == analyzeReq[c]
       IN analyzeReq' = [analyzeReq EXCEPT ![c] =
             IF o.kind = "completion"
             THEN [q EXCEPT !.pc = "pause",
                     !.analyzedFilings = Append(@, AnalyzedFiling(q.filings[q.k]))]
             ELSE IF o.status = 429 /\ AttemptsRemain(q.i, DefaultMaxRetries)
             THEN [q EXCEPT !.pc = "backoff"]
             ELSE AnalyzeThrows(q, "ai", o.status, <<o.message>>)]
    /\ UNCHANGED <<secVars, notAnalyzeSecVars>>

\* the timer of the backoff fires: the completion is requested again
AnalyzeAiRetry(c) ==
    /\ analyzeReq[c].pc = "backoff"
    /\ analyzeReq' = [analyzeReq EXCEPT ![c].pc = "ai", ![c].i = @ + 1,
                         ![c].aiCalls = @ + 1]
    /\ UNCHANGED <<secVars, notAnalyzeSecVars>>

\* the 2 s delay after a filing is over: the next filing, or res.json
AnalyzePauseEnds(c) ==
    /\ analyzeReq[c].pc = "pause"
    /\ LET q == analyzeReq[c]
       IN analyzeReq' = [analyzeReq EXCEPT ![c] =
             IF q.k < Len(q.filings)
             THEN [q EXCEPT !.pc = "content", !.k = @ + 1]
             ELSE [q EXCEPT !.pc = "done",
                     !.resp = Resp(200, [kind |-> "analysis", ticker |-> q.ticker,
                                         filings |-> q.analyzedFilings])]]
    /\ UNCHANGED <<secVars, notAnalyzeSecVars>>

\* the request is over; the caller takes another one
AnalyzeFinish(c) ==
    /\ analyzeReq[c].pc = "done"
    /\ analyzeReq' = [analyzeReq EXCEPT ![c] = IdleAnalyzeReq]
    /\ UNCHANGED <<secVars, notAnalyzeSecVars>>

AnalyzeNext ==
    \/ \E c \in AnalyzeReqs, t \in AnalyzeTickers : AnalyzeStart(c, t)
    \/ \E c \in AnalyzeReqs : AnalyzeSecCall(c)
    \/ \E c \in AnalyzeReqs : SecWake(c)
    \/ \E c \in AnalyzeReqs, s \in SecOutcomes : SecRespond(c, s)
    \/ \E c \in AnalyzeReqs : AnalyzeCikReturns(c)
    \/ \E c \in AnalyzeReqs, d \in SubmissionsData : AnalyzeSubmissionsReturn(c, d)
    \/ \E c \in AnalyzeReqs, v \in BOOLEAN : AnalyzeContentReturns(c, v)
    \/ \E c \in AnalyzeReqs, o \in AiOutcomes : AnalyzeAiSettles(c, o)
    \/ \E c \in AnalyzeReqs : AnalyzeAiRetry(c)
    \/ \E c \in AnalyzeReqs : AnalyzePauseEnds(c)
    \/ \E c \in AnalyzeReqs : AnalyzeFinish(c)
    \/ SecTick

(***************************************************************************)
(* Claims about POST /api/analyze/sec                                      *)
(***************************************************************************)
\* the steps of the filing lookup (getCIK and fetchSecFilings) that fail
\* because no CIK is found, no filing is found or the SEC request is
\* refused
LookupFailures == {"no-cik", "no-filings", "cik-request", "submissions-request"}

\* the word occurs in the details string
Mentions(details, word) == \E i \in 1..Len(details) : details[i] = word

\* C14: a request without ticker is answered 400 before any outbound SEC
\* or AI call and without touching the rate-limiter state; when the filing
\* lookup finds no CIK, finds no filings or the filing source is blocked,
\* the response has status 500 and a body with error and a details string
\* (mentioning the ticker in the no-CIK case), and no AI completion call
\* was made.
C14_AnalyzeErrors ==
    [][\A c \in AnalyzeReqs :
          LET q == analyzeReq[c]
              answered == analyzeReq'[c]
          IN /\ (q.pc = "idle" /\ answered.pc # "idle" /\ answered.ticker = NoTicker) =>
                    /\ answered.pc = "done"
                    /\ answered.resp.sent /\ answered.resp.status = 400
                    /\ answered.aiCalls = 0
                    /\ UNCHANGED secVars
             /\ (q.pc # "done" /\ answered.pc = "done"
                    /\ answered.failed \in LookupFailures) =>
                    /\ answered.resp.sent /\ answered.resp.status = 500
                    /\ answered.resp.body.kind = "error"
                    /\ answered.resp.body.error # ""
                    /\ Len(answered.resp.body.details) > 0
                    /\ answered.failed = "no-cik" =>
                           Mentions(answered.resp.body.details, answered.ticker)
                    /\ answered.aiCalls = 0]_vars

C14_Witness ==
    \E c \in AnalyzeReqs :
        /\ analyzeReq[c].pc = "done"
        /\ analyzeReq[c].ticker = "ZZZZ"
        /\ analyzeReq[c].failed = "no-cik"
        /\ analyzeReq[c].resp.status = 500
        /\ \E k \in 1..Len(secIssued) : secIssued[k].caller = c

(***************************************************************************)
(* POST /api/analyze/sec, one request at a time, through all its filings   *)
(***************************************************************************)
\* bounds: the SEC requests one handler may issue (CIK, submissions and
\* one per filing) and the ticks of the clock
MaxAnalyzeRequests == 4
MaxAnalyzeTime     == 8

OneAnalyzeReq == {1}

\* getCIK, fetchSecFilings or fetchFilingContent calls makeSecRequest
AnalyzeOneSecCall(c) ==
    /\ analyzeReq[c].pc \in {"cik", "submissions", "content"}
    /\ SecStartUpTo(c, MaxAnalyzeRequests)

AnalyzeOneTick == SecTickUpTo(MaxAnalyzeTime)

AnalyzeOneNext ==
    \/ \E c \in OneAnalyzeReq, t \in AnalyzeTickers : AnalyzeStart(c, t)
    \/ \E c \in OneAnalyzeReq : AnalyzeOneSecCall(c)
    \/ \E c \in OneAnalyzeReq : SecWake(c)
    \/ \E c \in OneAnalyzeReq, s \in SecOutcomes : SecRespond(c, s)
    \/ \E c \in OneAnalyzeReq : AnalyzeCikReturns(c)
    \/ \E c \in OneAnalyzeReq, d \in SubmissionsData : AnalyzeSubmissionsReturn(c, d)
    \/ \E c \in OneAnalyzeReq, v \in BOOLEAN : AnalyzeContentReturns(c, v)
    \/ \E c \in OneAnalyzeReq, o \in AiOutcomes : AnalyzeAiSettles(c, o)
    \/ \E c \in OneAnalyzeReq : AnalyzeAiRetry(c)
    \/ \E c \in OneAnalyzeReq : AnalyzePauseEnds(c)
    \/ \E c \in OneAnalyzeReq : AnalyzeFinish(c)
    \/ AnalyzeOneTick

\* the content fetch of the handler's current filing starts by this step
ContentFetchStarts(c) ==
    /\ analyzeReq[c].pc = "content"
    /\ secCall[c].pc = "idle"
    /\ secCall'[c].pc # "idle"

\* a completion is requested by this step
AiCalled(c) == analyzeReq'[c].aiCalls = analyzeReq[c].aiCalls + 1

\* the handler answers by this step
AnalyzeAnswers(c) == analyzeReq[c].pc # "done" /\ analyzeReq'[c].pc = "done"

\* C30: the selected filings are processed strictly one after the other
\* and all or nothing: for filing i the content fetch precedes its AI
\* call, and both are over before the content fetch of filing i+1 starts;
\* on success the response has exactly one {type, date, analysis} entry
\* per selected filing, in the same newest-first order; if a step fails
\* for a filing the response is an error without a filings list.
C30_SequentialAllOrNothing ==
    [][\A c \in AnalyzeReqs :
          LET q == analyzeReq[c]
              r == analyzeReq'[c]
          IN /\ ContentFetchStarts(c) =>
                    /\ Len(q.analyzedFilings) = q.k - 1
                    /\ q.aiCalls >= q.k - 1
             /\ AiCalled(c) =>
                    /\ Len(q.analyzedFilings) = q.k - 1
                    /\ \/ /\ q.pc = "content"
                          /\ secCall[c].pc = "done" /\ secCall[c].outcome = "ok"
                       \/ q.pc = "backoff"
             /\ Len(r.analyzedFilings) > Len(q.analyzedFilings) =>
                    /\ q.pc = "ai"
                    /\ Len(r.analyzedFilings) = q.k
             /\ (AnalyzeAnswers(c) /\ r.ticker # NoTicker /\ r.failed = "none") =>
                    /\ r.resp.status = 200
                    /\ Len(q.filings) >= 1
                    /\ r.resp.body.filings =
                           [i \in 1..Len(q.filings) |->
                               [type |-> q.filings[i].type,
                                date |-> q.filings[i].date,
                                analysis |-> "analysis"]]
                    /\ \A i, j \in 1..Len(q.filings) :
                           i < j => q.filings[i].date >= q.filings[j].date
             /\ (AnalyzeAnswers(c) /\ r.failed # "none") =>
                    /\ r.resp.status >= 400
                    /\ r.resp.body.kind = "error"
                    /\ "filings" \notin DOMAIN r.resp.body]_vars

\* a request with two selected filings was answered with both analyses,
\* the newer 10-K first
C30_Witness ==
    \E c \in AnalyzeReqs :
        /\ analyzeReq[c].pc = "done"
        /\ analyzeReq[c].resp.status = 200
        /\ Len(analyzeReq[c].resp.body.filings) = 2
        /\ analyzeReq[c].resp.body.filings[1].type = "10-K"
        /\ analyzeReq[c].resp.body.filings[2].type = "8-K"
        /\ Len(secIssued) = 4

(***************************************************************************)
(* usePortfolio (the watchlist hook)                                       *)
(*                                                                         *)
(* stocks is the state of the last render; setStocks puts an update into   *)
(* the queue and the next render applies the queue and runs the effects    *)
(* whose dependencies changed.  A function created by a render (addStock,  *)
(* updateStockData) sees the stocks of that render.  The loading and error *)
(* states are not rendered from; the error a call sets is kept with it.    *)
(***************************************************************************)
MaxStocks == 2

\* the calls of addStock that may be in flight together, and the one call
\* when addStock is called again only after it has returned
AddCalls == {1, 2}
OneAddCall == {1}

PortfolioTickers == {"A", "B"}

\* response.data of GET /stock/:ticker, apart from the ticker: the quote
\* when the stock is added, and the fresh quote at a later refresh
QuoteAtAdd     == "q1"
QuoteAtRefresh == "q2"

\* response.data of GET /stock/:ticker/news
FetchedNews == <<"n">>

StockItem(ticker, quote, news) ==
    [ticker |-> ticker, quote |-> quote, news |-> news]

\* localStorage.getItem('portfolio'): null, or the string stored
NoItem == [present |-> FALSE, json |-> <<>>]

\* JSON.stringify(stocks) and JSON.parse(savedStocks)
Stringify(list) == [present |-> TRUE, json |-> list]
Parse(item) == item.json

\* setStocks(value), setStocks(prev => [...prev, stockData]),
\* setStocks(prev => prev.filter(stock => stock.ticker !== ticker))
SetTo(list)      == [op |-> "set", arg |-> list]
AppendItem(item) == [op |-> "append", arg |-> item]
RemoveTicker(t)  == [op |-> "remove", arg |-> t]

ApplyUpdate(prev, u) ==
    IF u.op = "set" THEN u.arg
    ELSE IF u.op = "append" THEN Append(prev, u.arg)
    ELSE SelectSeq(prev, LAMBDA stock : stock.ticker # u.arg)

RECURSIVE ApplyQueue(_, _)
ApplyQueue(prev, q) ==
    IF q = <<>> THEN prev ELSE ApplyQueue(ApplyUpdate(prev, Head(q)), Tail(q))

\* no interval is set
NoInterval == [set |-> FALSE, stocks |-> <<>>]
Interval(list) == [set |-> TRUE, stocks |-> list]

\* a call of addStock: where it stands, its argument, the stocks it sees,
\* the quote it got, how its news fetch ended, the network calls it has
\* issued, and the error it has set ("" for null)
IdleAdd == [pc |-> "idle", ticker |-> "", seen |-> <<>>, quote |-> "",
            news |-> "none", calls |-> 0, error |-> ""]

IdleRefresh == [pc |-> "idle", stocks |-> <<>>, quote |-> <<>>, news |-> <<>>,
                error |-> ""]

\* the page is not loaded
PortfolioIdle ==
    /\ mounted = FALSE
    /\ stocks = <<>>
    /\ queue = <<>>
    /\ storage = NoItem
    /\ interval = NoInterval
    /\ adds = [a \in AddCalls |-> IdleAdd]
    /\ refresh = IdleRefresh

PortfolioInit == PortfolioIdle

\* every ticker is taken to be in the list
HasTickerAlways(list, ticker) == TRUE

\* stocks.some(s => s.ticker === ticker)
HasTicker(list, ticker) == \E i \in 1..Len(list) : list[i].ticker = ticker

\* the first render (stocks = []) and its effects, in order: the load
\* effect, the save effect, the interval effect (lines 25-40, 119-124)
Mount ==
    /\ ~mounted
    /\ mounted' = TRUE
    /\ stocks' = <<>>
    /\ LET savedStocks == storage
       IN queue' = IF savedStocks.present THEN <<SetTo(Parse(savedStocks))>>
                   ELSE <<>>
    /\ storage' = Stringify(<<>>)
    /\ interval' = NoInterval
    /\ UNCHANGED <<adds, refresh, notPortfolioVars>>

\* a render that applies the queued updates, and its effects: the save
\* effect ([stocks] changed) and the interval effect when stocks.length
\* changed
Render ==
    /\ mounted
    /\ queue # <<>>
    /\ LET next == ApplyQueue(stocks, queue)
       IN /\ stocks' = next
          /\ storage' = Stringify(next)
          /\ interval' = IF Len(next) = Len(stocks) THEN interval
                         ELSE IF Len(next) > 0 THEN Interval(next)
                         ELSE NoInterval
    /\ queue' = <<>>
    /\ UNCHANGED <<mounted, adds, refresh, notPortfolioVars>>

\* React renders the queued updates before the next event, timer or
\* network callback is handled
Rendered == queue = <<>>

\* addStock(ticker) is called: lines 43-46, up to the first await
AddStart(a, ticker) ==
    /\ Rendered
    /\ mounted
    /\ adds[a].pc = "idle"
    /\ Len(stocks) < MaxStocks
    /\ adds' = [adds EXCEPT ![a] =
          [IdleAdd EXCEPT !.pc = "quote", !.ticker = ticker, !.seen = stocks,
                          !.calls = 1]]
    /\ UNCHANGED <<mounted, stocks, queue, storage, interval, refresh,
                   notPortfolioVars>>

\* GET /stock/:ticker settles: lines 46-50, or the catch
AddQuoteSettles(a, ok) ==
    /\ Rendered
    /\ adds[a].pc = "quote"
    /\ adds' = [adds EXCEPT ![a] =
          IF ok THEN [@ EXCEPT !.pc = "news", !.quote = QuoteAtAdd, !.calls = 2]
          ELSE [@ EXCEPT !.pc = "done", !.error = "Request failed with status code 404"]]
    /\ UNCHANGED <<mounted, stocks, queue, storage, interval, refresh,
                   notPortfolioVars>>

\* GET /stock/:ticker/news settles: lines 51-73
AddNewsSettles(a, ok) ==
    /\ Rendered
    /\ adds[a].pc = "news"
    /\ LET call == adds[a]
           newsData == IF ok THEN FetchedNews ELSE <<>>
           stockData == StockItem(call.ticker, call.quote, newsData)
           fetched == IF ok THEN "fetched" ELSE "failed"
       IN IF HasTicker(call.seen, stockData.ticker)
          THEN /\ adds' = [adds EXCEPT ![a].pc = "done", ![a].news = fetched,
                              ![a].error = "Stock already exists in portfolio"]
               /\ UNCHANGED queue
          ELSE /\ adds' = [adds EXCEPT ![a].pc = "done", ![a].news = fetched]
               /\ queue' = Append(queue, AppendItem(stockData))
    /\ UNCHANGED <<mounted, stocks, storage, interval, refresh,
                   notPortfolioVars>>

\* the call of addStock is over
AddFinish(a) ==
    /\ Rendered
    /\ adds[a].pc = "done"
    /\ adds' = [adds EXCEPT ![a] = IdleAdd]
    /\ UNCHANGED <<mounted, stocks, queue, storage, interval, refresh,
                   notPortfolioVars>>

\* removeStock(ticker): line 77
RemoveStock(ticker) ==
    /\ Rendered
    /\ mounted
    /\ HasTicker(stocks, ticker)
    /\ queue' = Append(queue, RemoveTicker(ticker))
    /\ UNCHANGED <<mounted, stocks, storage, interval, adds, refresh,
                   notPortfolioVars>>

\* the interval fires: updateStockData of the render that set the interval
\* starts, one GET /stock/:ticker per item (lines 81-85)
RefreshStart ==
    /\ Rendered
    /\ mounted
    /\ interval.set
    /\ refresh.pc = "idle"
    /\ refresh' = [IdleRefresh EXCEPT !.pc = "running", !.stocks = interval.stocks,
                      !.quote = [i \in 1..Len(interval.stocks) |-> "pending"],
                      !.news = [i \in 1..Len(interval.stocks) |-> <<"pending">>]]
    /\ UNCHANGED <<mounted, stocks, queue, storage, interval, adds,
                   notPortfolioVars>>

\* the items of updatedStocks, once every item has settled
UpdatedStocks(r) ==
    [i \in 1..Len(r.stocks) |-> StockItem(r.stocks[i].ticker, r.quote[i], r.news[i])]

\* every item of the refresh has its quote and its news
AllSettled(r) ==
    \A i \in 1..Len(r.stocks) : r.quote[i] # "pending" /\ r.news[i] # <<"pending">>

\* Promise.all settles when its last item does: setStocks(updatedStocks)
RefreshAfter(r) ==
    IF AllSettled(r) THEN [r EXCEPT !.pc = "done"] ELSE r

\* GET /stock/:ticker of item i settles: the item goes on to its news, or
\* Promise.all rejects and the catch runs (lines 85, 111-112)
RefreshQuoteSettles(i, ok) ==
    /\ Rendered
    /\ refresh.pc = "running"
    /\ i \in 1..Len(refresh.stocks)
    /\ refresh.quote[i] = "pending"
    /\ refresh' = IF ok THEN [refresh EXCEPT !.quote[i] = QuoteAtRefresh]
                  ELSE [refresh EXCEPT !.pc = "done", !.quote[i] = "failed",
                                       !.error = "Request failed with status code 404"]
    /\ UNCHANGED <<mounted, stocks, queue, storage, interval, adds,
                   notPortfolioVars>>

\* GET /stock/:ticker/news of item i settles (lines 88-107), and
\* setStocks(updatedStocks) when it was the last item
RefreshNewsSettles(i, ok) ==
    /\ Rendered
    /\ refresh.pc = "running"
    /\ i \in 1..Len(refresh.stocks)
    /\ refresh.quote[i] \notin {"pending", "failed"}
    /\ refresh.news[i] = <<"pending">>
    /\ LET r == [refresh EXCEPT !.news[i] =
                    IF ok THEN FetchedNews ELSE refresh.stocks[i].news]
       IN /\ refresh' = RefreshAfter(r)
          /\ queue' = IF AllSettled(r) THEN Append(queue, SetTo(UpdatedStocks(r)))
                      ELSE queue
    /\ UNCHANGED <<mounted, stocks, storage, interval, adds,
                   notPortfolioVars>>

\* updateStockData is over
RefreshFinish ==
    /\ Rendered
    /\ refresh.pc = "done"
    /\ refresh' = IdleRefresh
    /\ UNCHANGED <<mounted, stocks, queue, storage, interval, adds,
                   notPortfolioVars>>

\* the page is closed or reloaded: only localStorage is kept
Unload ==
    /\ mounted
    /\ mounted' = FALSE
    /\ stocks' = <<>>
    /\ queue' = <<>>
    /\ interval' = NoInterval
    /\ adds' = [a \in AddCalls |-> IdleAdd]
    /\ refresh' = IdleRefresh
    /\ UNCHANGED <<storage, notPortfolioVars>>

PortfolioNext ==
    \/ Mount
    \/ Render
    \/ \E a \in OneAddCall, t \in PortfolioTickers : AddStart(a, t)
    \/ \E a \in OneAddCall, ok \in BOOLEAN : AddQuoteSettles(a, ok)
    \/ \E a \in OneAddCall, ok \in BOOLEAN : AddNewsSettles(a, ok)
    \/ \E a \in OneAddCall : AddFinish(a)
    \/ \E t \in PortfolioTickers : RemoveStock(t)
    \/ RefreshStart
    \/ \E i \in 1..MaxStocks, ok \in BOOLEAN : RefreshQuoteSettles(i, ok)
    \/ \E i \in 1..MaxStocks, ok \in BOOLEAN : RefreshNewsSettles(i, ok)
    \/ RefreshFinish
    \/ Unload

\* addStock called while another call of it is in flight, and removeStock
AddRaceNext ==
    \/ Mount
    \/ Render
    \/ \E a \in AddCalls, t \in PortfolioTickers : AddStart(a, t)
    \/ \E a \in AddCalls, ok \in BOOLEAN : AddQuoteSettles(a, ok)
    \/ \E a \in AddCalls, ok \in BOOLEAN : AddNewsSettles(a, ok)
    \/ \E a \in AddCalls : AddFinish(a)
    \/ \E t \in PortfolioTickers : RemoveStock(t)

(***************************************************************************)
(* Claims about usePortfolio                                               *)
(***************************************************************************)
\* addStock is called by this step
AddCalled(a) == adds[a].pc = "idle" /\ adds'[a].pc # "idle"

\* C15: addStock for a ticker that is already in the watchlist is rejected
\* with the local validation error 'Stock already exists in portfolio'
\* before any network call is issued, and the watchlist is left unchanged.
C15_DuplicateRejectedLocally ==
    [][\A a \in AddCalls :
          (AddCalled(a) /\ HasTicker(stocks, adds'[a].ticker)) =>
              /\ adds'[a].pc = "done"
              /\ adds'[a].error = "Stock already exists in portfolio"
              /\ adds'[a].calls = 0
              /\ stocks' = stocks /\ queue' = queue]_vars

\* the refresh of a watchlist with several items, not changed since the
\* refresh began, ends with this step, every item having either failed or
\* fetched its quote and its news
RefreshEnds ==
    /\ refresh.pc = "running" /\ refresh'.pc = "done"
    /\ Len(refresh.stocks) >= 2
    /\ stocks = refresh.stocks /\ queue = <<>>
    /\ \A i \in 1..Len(refresh'.stocks) :
           \/ refresh'.quote[i] = "failed"
           \/ refresh'.quote[i] # "pending" /\ refresh'.news[i] # <<"pending">>

\* C16: in a refresh of several items, a fetch failure for one item does
\* not block the others: every item whose own quote fetch succeeds is
\* updated with its fresh data and the failing item keeps its previous
\* data.
C16_RefreshPerItem ==
    [][RefreshEnds =>
          LET r == refresh'
              result == ApplyQueue(stocks', queue')
          IN \A i \in 1..Len(r.stocks) :
                /\ i <= Len(result)
                /\ result[i] = IF r.quote[i] = "failed" THEN r.stocks[i]
                                ELSE StockItem(r.stocks[i].ticker, r.quote[i], r.news[i])]_vars

\* the page is loaded by this step
Startup == ~mounted /\ mounted'

\* C17: after every accepted mutation the list stored under 'portfolio'
\* equals the in-memory watchlist; on startup the in-memory watchlist
\* becomes the list that was stored before; and at no step of the startup
\* is a stored non-empty list replaced in storage by a different list.
C17_PersistenceRoundTrip ==
    /\ []((mounted /\ queue = <<>>) => storage = Stringify(stocks))
    /\ [][(Startup /\ storage.present) =>
              ApplyQueue(stocks', queue') = Parse(storage)]_vars
    /\ [][(Startup /\ storage.present /\ Parse(storage) # <<>>) =>
              storage' = storage]_vars

(***************************************************************************)
(* The limiter's functions, called one by one                              *)
(*                                                                         *)
(* checkSecRateLimit, handleSecRateLimit and makeSecRequest on the state   *)
(* secRateLimiter, with handleSecRateLimit also called by itself with an   *)
(* error whose response has status 429 (makeSecRequest passes it no such   *)
(* error, see SecNeverBlocked).  The clock may jump to the end of a block. *)
(***************************************************************************)
\* the largest consecutiveErrors before handleSecRateLimit is called
MaxErrors == 9

\* handleSecRateLimit(error), error.response.status being 429, called
\* while the clock is within the first MaxSecTime ticks: lines 104-110
HandleRateLimited ==
    /\ secRateLimiter.consecutiveErrors < MaxErrors
    /\ secNow <= MaxSecTime
    /\ secRateLimiter' =
           HandleSecRateLimit(secRateLimiter,
                              Err("Request failed with status code", 429),
                              secNow).limiter
    /\ UNCHANGED <<secNow, secCall, secIssued, notSecVars>>

\* time passes until the last tick of the block, or until its end
SecBlockElapses ==
    /\ secRateLimiter.isBlocked
    /\ \E t \in {secRateLimiter.blockUntil - 1, secRateLimiter.blockUntil} :
           /\ t > secNow
           /\ secNow' = t
    /\ UNCHANGED <<secRateLimiter, secCall, secIssued, notSecVars>>

\* the calls of makeSecRequest follow one another
LimiterCallers == {1}

LimiterNext ==
    \/ \E c \in LimiterCallers : SecStart(c)
    \/ \E c \in LimiterCallers : SecWake(c)
    \/ \E c \in LimiterCallers, s \in SecOutcomes : SecRespond(c, s)
    \/ \E c \in LimiterCallers : SecFinish(c)
    \/ SecTick
    \/ HandleRateLimited
    \/ SecBlockElapses

(***************************************************************************)
(* Claims about the limiter's functions                                    *)
(***************************************************************************)
\* makeSecRequest, and with it checkSecRateLimit, is called by this step
SecCalled(c) == secCall[c].pc = "idle" /\ secCall'[c].pc # "idle"

\* blockUntil - now, in ms
RemainingMs == (secRateLimiter.blockUntil - secNow) * SecTickMs

\* C18: checkSecRateLimit called while isBlocked is true and now <
\* blockUntil throws at once, without suspending and without a network
\* call, reporting the remaining wait as a whole number of seconds >= 1
\* (the remaining time rounded up), and leaves lastRequestTime, isBlocked,
\* blockUntil and consecutiveErrors unchanged.
C18_BlockedFailsFast ==
    [][\A c \in SecCallers :
          (/\ SecCalled(c)
           /\ secRateLimiter.isBlocked
           /\ secNow < secRateLimiter.blockUntil) =>
              /\ secCall'[c].pc = "done"
              /\ secCall'[c].outcome = "blocked"
              /\ secCall'[c].error.message = "SEC API is blocked"
              /\ secCall'[c].waitSecs >= 1
              /\ secCall'[c].waitSecs * 1000 >= RemainingMs
              /\ (secCall'[c].waitSecs - 1) * 1000 < RemainingMs
              /\ secIssued' = secIssued
              /\ secRateLimiter' = secRateLimiter]_vars

\* a call was refused while the limiter was blocked
C18_Witness ==
    /\ secRateLimiter.isBlocked
    /\ secNow < secRateLimiter.blockUntil
    /\ \E c \in SecCallers :
          /\ secCall[c].pc = "done"
          /\ secCall[c].outcome = "blocked"
          /\ secCall[c].waitSecs >= 1

\* C19: checkSecRateLimit called while isBlocked is true and now >=
\* blockUntil sets isBlocked to false and consecutiveErrors to 0 and goes
\* on as an unblocked call (it waits for the rest of minDelay or issues
\* the request); and after a makeSecRequest that returns a 200 response,
\* consecutiveErrors is 0.
C19_ResetOnRecovery ==
    [][\A c \in SecCallers :
          /\ (/\ SecCalled(c)
              /\ secRateLimiter.isBlocked
              /\ secNow >= secRateLimiter.blockUntil) =>
                 /\ ~secRateLimiter'.isBlocked
                 /\ secRateLimiter'.consecutiveErrors = 0
                 /\ secRateLimiter'.blockUntil = secRateLimiter.blockUntil
                 /\ IF secNow - secRateLimiter.lastRequestTime < MinDelay
                    THEN /\ secCall'[c].pc = "waiting"
                         /\ secCall'[c].wakeAt =
                                secRateLimiter.lastRequestTime + MinDelay
                         /\ secIssued' = secIssued
                    ELSE /\ secCall'[c].pc = "request"
                         /\ secRateLimiter'.lastRequestTime = secNow
                         /\ Len(secIssued') = Len(secIssued) + 1
          /\ SecAnswered(c, 200) =>
                 /\ secCall'[c].outcome = "ok"
                 /\ secRateLimiter'.consecutiveErrors = 0]_vars

\* the limiter was blocked (blockUntil is set), the block has ended and a
\* call has cleared it and gone on
C19_Witness ==
    /\ secRateLimiter.blockUntil > 0
    /\ secNow >= secRateLimiter.blockUntil
    /\ ~secRateLimiter.isBlocked
    /\ secRateLimiter.consecutiveErrors = 0
    /\ \E c \in SecCallers : secCall[c].pc \in {"waiting", "request"}

\* handleSecRateLimit blocks the limiter by this step
RateLimitHandled ==
    secRateLimiter'.consecutiveErrors = secRateLimiter.consecutiveErrors + 1

\* the block duration set by the step, in ms
BlockDurationMs == (secRateLimiter'.blockUntil - secNow) * SecTickMs

\* C20: the block duration computed by handleSecRateLimit for n =
\* consecutiveErrors after the increment is min(2^n * 600 000 ms,
\* 86 400 000 ms): 20 min for n = 1, twice the duration of n - 1 up to
\* n = 7, never less than the duration of n - 1, and the cap of 24 h for
\* every n >= 8.
C20_BlockDuration ==
    [][RateLimitHandled =>
          LET n == secRateLimiter'.consecutiveErrors
              Duration(k) == IF 600000 * Pow2(k) < 86400000
                             THEN 600000 * Pow2(k) ELSE 86400000
          IN /\ secRateLimiter'.isBlocked
             /\ BlockDurationMs = Duration(n)
             /\ n = 1 => BlockDurationMs = 20 * 60 * 1000
             /\ (n >= 2 /\ n <= 7) => BlockDurationMs = 2 * Duration(n - 1)
             /\ n >= 2 => BlockDurationMs >= Duration(n - 1)
             /\ BlockDurationMs <= 86400000
             /\ n >= 8 => BlockDurationMs = 86400000]_vars

\* the limiter is blocked for 24 h after eight or more failures in a row
C20_Witness ==
    /\ secRateLimiter.isBlocked
    /\ secRateLimiter.consecutiveErrors >= 8
    /\ \E t \in 0..MaxSecTime :
          (secRateLimiter.blockUntil - t) * SecTickMs = 86400000

\* now - lastRequestTime, as the call reads it
Elapsed == secNow - secRateLimiter.lastRequestTime

\* C21: for sequential calls on an unblocked limiter, checkSecRateLimit
\* called when elapsed = now - lastRequestTime is below the minimum
\* interval suspends the caller for exactly minInterval - elapsed and then
\* records lastRequestTime as the time after the wait; with elapsed >=
\* minInterval it does not suspend and records lastRequestTime = now; and
\* lastRequestTime never decreases.
C21_WaitsRemainder ==
    [][/\ \A c \in SecCallers :
            /\ (SecCalled(c) /\ ~secRateLimiter.isBlocked) =>
                   IF Elapsed < MinDelay
                   THEN /\ secCall'[c].pc = "waiting"
                        /\ secCall'[c].wakeAt - secNow = MinDelay - Elapsed
                        /\ secRateLimiter' = secRateLimiter
                        /\ secIssued' = secIssued
                   ELSE /\ secCall'[c].pc = "request"
                        /\ secRateLimiter'.lastRequestTime = secNow
            /\ (secCall[c].pc = "waiting" /\ secCall'[c].pc # "waiting") =>
                   /\ secNow >= secCall[c].wakeAt
                   /\ secCall'[c].pc = "request"
                   /\ secRateLimiter'.lastRequestTime = secNow
       /\ secRateLimiter'.lastRequestTime >= secRateLimiter.lastRequestTime]_vars

\* a call was suspended for the rest of the interval and has recorded the
\* time after its wait
C21_Witness ==
    /\ ~secRateLimiter.isBlocked
    /\ secRateLimiter.blockUntil = 0
    /\ Len(secIssued) >= 2
    /\ secIssued[2].time - secIssued[1].time = MinDelay
    /\ secRateLimiter.lastRequestTime = secIssued[2].time
    /\ \E c \in SecCallers : secCall[c].pc = "request"

\* the quote fetch of call a settles by this step, and its news fetch
QuoteSettled(a) == adds[a].pc = "quote" /\ adds'[a].pc # "quote"
NewsSettled(a)  == adds[a].pc = "news" /\ adds'[a].pc # "news"

\* the step queues the append of the item of call a with the news given
ItemAppended(a, news) ==
    queue' = Append(queue,
                 AppendItem(StockItem(adds[a].ticker, adds[a].quote, news)))

\* the quote is fetched first and the news second; a failed quote fetch
\* leaves the watchlist unchanged and sets the error
QuoteThenNews(a) ==
    /\ AddCalled(a) =>
           adds'[a].pc = "quote" /\ adds'[a].calls = 1 /\ adds'[a].error = ""
    /\ QuoteSettled(a) =>
           /\ stocks' = stocks /\ queue' = queue
           /\ \/ adds'[a].pc = "news" /\ adds'[a].calls = 2 /\ adds'[a].error = ""
              \/ adds'[a].pc = "done" /\ adds'[a].calls = 1 /\ adds'[a].error # ""

C28_NoDuplicateTickers ==
    \A i, j \in 1..Len(stocks) :
        i # j => stocks[i].ticker # stocks[j].ticker

\* updateStockData completes by this step, with setStocks(updatedStocks)
RefreshCompletes ==
    /\ refresh.pc = "running"
    /\ refresh'.pc = "done"
    /\ queue' # queue

\* C29: when removeStock(t) or a successful addStock(u) completes while
\* updateStockData awaits its fetches, then after the refresh completes t
\* is still absent from the watchlist and u is still present.
C29_MutationsSurviveRefresh ==
    [][RefreshCompletes =>
          LET after == ApplyQueue(stocks', queue')
          IN \A t \in PortfolioTickers :
                /\ (HasTicker(refresh.stocks, t) /\ ~HasTicker(stocks, t)) =>
                       ~HasTicker(after, t)
                /\ (~HasTicker(refresh.stocks, t) /\ HasTicker(stocks, t)) =>
                       HasTicker(after, t)]_vars

(***************************************************************************)
(* chunkText (lines 636-673)                                               *)
(*                                                                         *)
(* The content of a filing is a sequence of pieces: a piece of the text    *)
(* the filing came with, from one character position to another, or the    *)
(* gap marker.  Lengths are counted in characters.                         *)
(***************************************************************************)
\* bound of the chunking model: the largest number of filings passed
MaxChunkFilings == 4

\* const MAX_CHUNK_LENGTH = 4000
MAX_CHUNK_LENGTH == 4000

\* '\n...[content summarized]...\n'.length
GapMarkerLength == 28

\* filing.content.length of the filings passed
ContentLengths == {1500, 2500, 4000, 4001}

\* const filingPriority = { '10-K': 0, '10-Q': 1, '8-K': 2 }
filingPriority == [t \in {"10-K", "10-Q", "8-K"} |->
                      IF t = "10-K" THEN 0 ELSE IF t = "10-Q" THEN 1 ELSE 2]

TextPiece(from, to) == [kind |-> "text", from |-> from, to |-> to]
GapMarker == [kind |-> "marker", from |-> 0, to |-> 0]

\* a text of n characters, as it comes
WholeText(n) == <<TextPiece(1, n)>>

PieceLength(p) == IF p.kind = "marker" THEN GapMarkerLength ELSE p.to - p.from + 1

\* content.length
RECURSIVE ContentLength(_)
ContentLength(content) ==
    IF content = <<>> THEN 0
    ELSE PieceLength(Head(content)) + ContentLength(Tail(content))

\* content.slice(0, n) and content.slice(-n) of a text in one piece
SliceHead(content, n) ==
    LET p == content[1]
    IN IF n >= PieceLength(p) THEN content ELSE <<TextPiece(p.from, p.from + n - 1)>>

SliceTail(content, n) ==
    LET p == content[1]
    IN IF n >= PieceLength(p) THEN content ELSE <<TextPiece(p.to - n + 1, p.to)>>

\* the filings chunkText may be passed: the k-th has id k
ChunkInputs ==
    UNION {[1..n -> [type : DOMAIN filingPriority, len : ContentLengths]] :
               n \in 0..MaxChunkFilings}

InputFilings(in) ==
    [k \in 1..Len(in) |-> [id |-> k, type |-> in[k].type,
                            content |-> WholeText(in[k].len)]]

\* filings.sort((a, b) => filingPriority[a.type] - filingPriority[b.type]):
\* the sort is stable
SortByPriority(filings) ==
    SelectSeq(filings, LAMBDA f : filingPriority[f.type] = 0)
    \o SelectSeq(filings, LAMBDA f : filingPriority[f.type] = 1)
    \o SelectSeq(filings, LAMBDA f : filingPriority[f.type] = 2)

\* the filing is left as it is
TruncateNever(filing) == filing

\* lines 648-653: a filing longer than MAX_CHUNK_LENGTH keeps its head and
\* its tail, partLength = Math.floor(MAX_CHUNK_LENGTH * 0.4) each
Truncate(filing) ==
    IF ContentLength(filing.content) > MAX_CHUNK_LENGTH
    THEN LET partLength == (MAX_CHUNK_LENGTH * 4) \div 10
         IN [filing EXCEPT !.content =
                 SliceHead(filing.content, partLength)
                 \o <<GapMarker>>
                 \o SliceTail(filing.content, partLength)]
    ELSE filing

\* the loop of lines 646-665 over the filings left (done: the chunks
\* pushed so far), and lines 667-669
RECURSIVE Pack(_, _, _, _)
Pack(filings, done, currentChunk, currentLength) ==
    IF filings = <<>>
    THEN IF Len(currentChunk) > 0 THEN Append(done, currentChunk) ELSE done
    ELSE LET filing == Truncate(Head(filings))
             added  == ContentLength(filing.content)
             full   == currentLength + added > MAX_CHUNK_LENGTH
             push   == full /\ Len(currentChunk) > 0
         IN Pack(Tail(filings),
                 IF push THEN Append(done, currentChunk) ELSE done,
                 Append(IF push THEN <<>> ELSE currentChunk, filing),
                 (IF push THEN 0 ELSE currentLength) + added)

\* chunkText(filings)
ChunkText(filings) == Pack(SortByPriority(filings), <<>>, <<>>, 0)

ChunkInit ==
    /\ chunkInput \in {InputFilings(in) : in \in ChunkInputs}
    /\ chunkPc = "called"
    /\ chunks = <<>>

ChunkIdle ==
    /\ chunkInput = <<>>
    /\ chunkPc = "idle"
    /\ chunks = <<>>

\* chunkText runs and returns
ChunkTextReturns ==
    /\ chunkPc = "called"
    /\ chunks' = ChunkText(chunkInput)
    /\ chunkPc' = "returned"
    /\ UNCHANGED <<chunkInput, notChunkVars>>

ChunkNext == ChunkTextReturns

(***************************************************************************)
(* Claims about chunkText                                                  *)
(***************************************************************************)
\* the filings of the groups, one group after the other
RECURSIVE Flatten(_)
Flatten(groups) ==
    IF groups = <<>> THEN <<>> ELSE Head(groups) \o Flatten(Tail(groups))

\* the filing of the result that came as the k-th filing
Packed(k) ==
    LET all == Flatten(chunks)
    IN all[CHOOSE j \in 1..Len(all) : all[j].id = k]

\* C24: the filings are put in the order 10-K, 10-Q, 8-K before packing; a
\* filing whose content exceeds 4000 characters is replaced by its first
\* 1600 characters, a gap marker and its last 1600 characters; in the
\* result every filing is in exactly one group, no filing's content is
\* split across groups, no group is empty, the groups keep the priority
\* order, and the total content length of every group is at most 4000.
C24_ChunkPacking ==
    chunkPc = "returned" =>
        LET all == Flatten(chunks)
        IN /\ Len(all) = Len(chunkInput)
           /\ \A k \in 1..Len(chunkInput) :
                  /\ Cardinality({j \in 1..Len(all) : all[j].id = k}) = 1
                  /\ Packed(k).type = chunkInput[k].type
                  /\ LET n == chunkInput[k].content[1].to
                     IN Packed(k).content =
                            IF n > 4000
                            THEN <<TextPiece(1, 1600), GapMarker,
                                   TextPiece(n - 1599, n)>>
                            ELSE <<TextPiece(1, n)>>
           /\ \A i, j \in 1..Len(all) :
                  i < j => \/ all[i].type = all[j].type
                           \/ all[i].type = "10-K"
                           \/ all[j].type = "8-K"
           /\ \A g \in 1..Len(chunks) :
                  /\ Len(chunks[g]) > 0
                  /\ ContentLength(Flatten(
                         [m \in 1..Len(chunks[g]) |-> chunks[g][m].content])) <= 4000

\* three filings came in the order 8-K, 10-K (too long), 10-Q; two of
\* them share a group
C24_Witness ==
    /\ chunkPc = "returned"
    /\ Len(chunkInput) = 3
    /\ chunkInput[1].type = "8-K"
    /\ chunkInput[2].type = "10-K"
    /\ chunkInput[2].content = WholeText(4001)
    /\ chunkInput[3].type = "10-Q"
    /\ Len(chunks) = 2
    /\ Len(chunks[2]) = 2
    /\ chunks[1][1].id = 2

(***************************************************************************)
(* The limiter under sequential use                                        *)
(*                                                                         *)
(* One caller: a call of makeSecRequest starts when the previous one has   *)
(* ended, and a request is issued only when checkSecRateLimit has          *)
(* returned.  The request may be rejected with a response of status 429,   *)
(* the error that the catch block of makeSecRequest hands to               *)
(* handleSecRateLimit (axios with validateStatus as configured does not    *)
(* reject with it, see SecNeverBlocked).                                   *)
(***************************************************************************)
\* the request is rejected with a response of status 429: lines 145-148
SecRateLimited(c) ==
    /\ secCall[c].pc = "request"
    /\ LET h == HandleSecRateLimit(secRateLimiter, AxiosError(429), secNow)
       IN /\ secRateLimiter' = h.limiter
          /\ secCall' = [secCall EXCEPT ![c].pc = "done",
                             ![c].status = 429,
                             ![c].outcome = "error",
                             ![c].error = h.error]
    /\ UNCHANGED <<secNow, secIssued, notSecVars>>

SequentialNext ==
    \/ \E c \in LimiterCallers : SecStart(c)
    \/ \E c \in LimiterCallers : SecWake(c)
    \/ \E c \in LimiterCallers, s \in SecOutcomes : SecRespond(c, s)
    \/ \E c \in LimiterCallers : SecRateLimited(c)
    \/ \E c \in LimiterCallers : SecFinish(c)
    \/ SecTick
    \/ SecBlockElapses

\* C27: under sequential use of the limiter (at most one makeSecRequest in
\* flight, every request issued after checkSecRateLimit returned),
\* consecutiveErrors never exceeds 1, every block set by handleSecRateLimit
\* lasts exactly 20 minutes, and the cap of 24 hours is never reached.
C27_SequentialSingleError ==
    /\ [](secRateLimiter.consecutiveErrors <= 1)
    /\ [][RateLimitHandled =>
             /\ secRateLimiter'.isBlocked
             /\ BlockDurationMs = 20 * 60 * 1000
             /\ BlockDurationMs < 24 * 60 * 60 * 1000]_vars

\* the limiter is blocked for the second time: the first block has ended,
\* and the request issued after it was rejected with status 429 as well
C27_Witness ==
    /\ secRateLimiter.isBlocked
    /\ secRateLimiter.consecutiveErrors = 1
    /\ Len(secIssued) = 2
    /\ secIssued[2].time >= secIssued[1].time + BlockTime(1)
    /\ secRateLimiter.blockUntil = secIssued[2].time + BlockTime(1)
    /\ \A c \in LimiterCallers : secCall[c].status = 429

(***************************************************************************)
(* Specifications                                                          *)
(***************************************************************************)
InitSec == SecInit /\ CacheIdle /\ FilingsIdle /\ RetryIdle /\ ExtractIdle /\ TranslateIdle /\ AnalyzeIdle /\ PortfolioIdle /\ ChunkIdle

SpecSec == InitSec /\ [][SecNext]_vars

InitQuote == CacheInit /\ SecIdle /\ FilingsIdle /\ RetryIdle /\ ExtractIdle /\ TranslateIdle /\ AnalyzeIdle /\ PortfolioIdle /\ ChunkIdle

SpecQuote == InitQuote /\ [][QuoteNext]_vars

InitCache == CacheInit /\ SecIdle /\ FilingsIdle /\ RetryIdle /\ ExtractIdle /\ TranslateIdle /\ AnalyzeIdle /\ PortfolioIdle /\ ChunkIdle

SpecCache == InitCache /\ [][CacheNext]_vars

InitFilings == FilingsInit /\ SecIdle /\ CacheIdle /\ RetryIdle /\ ExtractIdle /\ TranslateIdle /\ AnalyzeIdle /\ PortfolioIdle /\ ChunkIdle

SpecFilings == InitFilings /\ [][FilingsNext]_vars

InitRetry == RetryInit /\ SecIdle /\ CacheIdle /\ FilingsIdle /\ ExtractIdle /\ TranslateIdle /\ AnalyzeIdle /\ PortfolioIdle /\ ChunkIdle

SpecRetry == InitRetry /\ [][RetryNext]_vars

InitExtract == ExtractInit /\ SecIdle /\ CacheIdle /\ FilingsIdle /\ RetryIdle /\ TranslateIdle /\ AnalyzeIdle /\ PortfolioIdle /\ ChunkIdle

SpecExtract == InitExtract /\ [][ExtractNext]_vars

InitTranslate == TranslateInit /\ SecIdle /\ CacheIdle /\ FilingsIdle /\ RetryIdle /\ ExtractIdle /\ AnalyzeIdle /\ PortfolioIdle /\ ChunkIdle

SpecTranslate == InitTranslate /\ [][TranslateNext]_vars

InitAnalyze == AnalyzeInit /\ SecInit /\ CacheIdle /\ FilingsIdle /\ RetryIdle /\ ExtractIdle /\ TranslateIdle /\ PortfolioIdle /\ ChunkIdle

SpecAnalyze == InitAnalyze /\ [][AnalyzeNext]_vars

InitPortfolio == PortfolioInit /\ SecIdle /\ CacheIdle /\ FilingsIdle /\ RetryIdle /\ ExtractIdle /\ TranslateIdle /\ AnalyzeIdle /\ ChunkIdle

SpecPortfolio == InitPortfolio /\ [][PortfolioNext]_vars

InitLimiter == SecInit /\ CacheIdle /\ FilingsIdle /\ RetryIdle /\ ExtractIdle /\ TranslateIdle /\ AnalyzeIdle /\ PortfolioIdle /\ ChunkIdle

SpecLimiter == InitLimiter /\ [][LimiterNext]_vars

InitChunk == ChunkInit /\ SecIdle /\ CacheIdle /\ FilingsIdle /\ RetryIdle /\ ExtractIdle /\ TranslateIdle /\ AnalyzeIdle /\ PortfolioIdle

SpecChunk == InitChunk /\ [][ChunkNext]_vars

InitAddRace == PortfolioInit /\ SecIdle /\ CacheIdle /\ FilingsIdle /\ RetryIdle /\ ExtractIdle /\ TranslateIdle /\ AnalyzeIdle /\ ChunkIdle

SpecAddRace == InitAddRace /\ [][AddRaceNext]_vars

InitAnalyzeOne == AnalyzeInit /\ SecInit /\ CacheIdle /\ FilingsIdle /\ RetryIdle /\ ExtractIdle /\ TranslateIdle /\ PortfolioIdle /\ ChunkIdle

SpecAnalyzeOne == InitAnalyzeOne /\ [][AnalyzeOneNext]_vars

InitSequential == SecInit /\ CacheIdle /\ FilingsIdle /\ RetryIdle /\ ExtractIdle /\ TranslateIdle /\ AnalyzeIdle /\ PortfolioIdle /\ ChunkIdle

SpecSequential == InitSequential /\ [][SequentialNext]_vars

====
